---- MODULE Spec2Model ----
(***************************************************************************)
(* Proximity search and multi-modal travel estimation of the Dutch school  *)
(* finder backend (backend/app: distance.py, crud.py,                      *)
(* transportation_service.py).                                             *)
(*                                                                         *)
(* Units.  The code works on IEEE doubles; the model works on integers:    *)
(*   latitude, longitude : 1e-4 degree   (52.3676 deg  ->  523676)         *)
(*   distance, radius    : metre         (distance_km = 1.5  ->  1500),    *)
(*                         a computed distance is floored to whole metres  *)
(*   distance_km field   : 10 metres     (round(distance, 2))              *)
(*   format_distance     : decimetre     (its argument)                    *)
(*   durations           : minute                                          *)
(***************************************************************************)
EXTENDS Integers, Sequences, FiniteSets, TLC

VARIABLES
    schools,     \* rows of the schools table, in id order (database.py School)
    nearby,      \* the last search_schools_by_proximity call: arguments and returned list
    transport,   \* the last route aggregation call: arguments and returned list
    estimate,    \* the last call of a single estimator or of the rush-hour
                 \* adjustment: arguments and returned value
    geo,         \* the last call of a distance.py function: arguments and returned value
    response,    \* the last request to an endpoint: its parameters, what the
                 \* collaborators did, and the response
    now,         \* the wall clock (datetime.now / datetime.utcnow), in hours
    tasks,       \* the get_transportation_for_school coroutines in flight,
                 \* each with its arguments, its position and its locals
    batch,       \* the batch_geocode_with_delay call: its arguments, its
                 \* position in the loop, and the requests and sleeps so far
    comparisons, \* rows of the shareable_comparisons table (database.py
                 \* ShareableComparison)
    viewers,     \* the GET /share/{share_id} requests in flight, each with
                 \* its own Session
    applications, \* rows of the application_statuses table (database.py
                 \* ApplicationStatus)
    updaters     \* the POST /application-status requests in flight, each
                 \* with its own Session

\* The variables of the single calls and requests.
requestVars == <<schools, nearby, transport, estimate, geo, response>>

\* The variables of the concurrent requests, of the clock and of the batch.
concurrentVars == <<now, tasks, batch, comparisons, viewers, applications, updaters>>

vars == <<requestVars, concurrentVars>>

\* A Python Optional / a NULL-able column: None is the empty sequence, a
\* value v is <<v>>.  A falsy flag or number (None, False, 0) is FALSE or 0.
None == <<>>
Some(v) == <<v>>

(***************************************************************************)
(* Bounds of the model.                                                    *)
(***************************************************************************)
MaxSchools == 3      \* rows in the schools table
MaxLimit == 2        \* params.limit ranges over 1..MaxLimit
MaxQuarterKm == 90   \* the estimators are called with distances up to MaxQuarterKm * 250 m
MaxBaseMinutes == 120   \* the rush-hour adjustment is called with durations up to MaxBaseMinutes
MaxDecimetres == 12600  \* format_distance is called with distances up to MaxDecimetres * 0.1 m
MaxTasks == 2         \* coroutines in flight
MaxViewers == 2       \* GET /share requests in flight
MaxUpdaters == 2      \* POST /application-status requests in flight
MaxClock == 11        \* the wall clock runs from hour 0 to hour MaxClock
MaxAddresses == 3     \* addresses in a batch_geocode_with_delay call
MaxComparisons == 2   \* rows in the shareable_comparisons table
MaxApplications == 2  \* rows in the application_statuses table

(***************************************************************************)
(* Input sets.                                                             *)
(***************************************************************************)
\* Geocoded addresses: search centres and route origins (Amsterdam, a point
\* about 1.4 km north-east of it, and a point 456 m north of it).
Addresses == { <<523676, 49041>>, <<523766, 49191>>, <<523717, 49041>> }

\* School coordinates.  Seen from the first address they lie at
\* 0, 0.04, 1.5, 1.99, 2.0, 3.0, 3.8, 3.9, 4.99, 5.0, 6.0 (diagonal), 12,
\* 14.9, 15.1, 15.3 and 20 km.
SchoolCoords ==
    { <<523676, 49041>>, <<523680, 49041>>, <<523811, 49041>>, <<523855, 49041>>, <<523856, 49041>>,
      <<523946, 49041>>, <<524018, 49041>>, <<524027, 49041>>, <<524125, 49041>>,
      <<524126, 49041>>, <<524056, 49666>>, <<524755, 49041>>, <<525016, 49041>>,
      <<525034, 49041>>, <<525052, 49041>>, <<525475, 49041>> }

\* Coordinates of the rows create_school inserts: four of the points above
\* (0, 3, 6 and 12 km from the first address) and a row without coordinates.
RowCoords ==
    { <<Some(523676), Some(49041)>>, <<Some(523946), Some(49041)>>,
      <<Some(524056), Some(49666)>>, <<Some(524755), Some(49041)>>,
      <<None, None>> }   \* latitude and longitude NULL

\* Attribute values of the rows create_school inserts.
RowAttributes ==
    { [school_type |-> "Primary", inspection_score |-> 8,
       is_bilingual |-> TRUE, is_international |-> FALSE],
      [school_type |-> "Secondary", inspection_score |-> 6,
       is_bilingual |-> FALSE, is_international |-> TRUE] }

\* Attribute filters of a nearby search (models.py SchoolSearchParams).
FilterChoices ==
    { [school_type |-> None, min_rating |-> 0, bilingual |-> FALSE, international |-> FALSE],
      [school_type |-> Some("primary"), min_rating |-> 7, bilingual |-> TRUE, international |-> FALSE],
      [school_type |-> None, min_rating |-> 0, bilingual |-> FALSE, international |-> TRUE] }

\* Search radii in metres (main.py: 0.1 <= radius_km <= 50).
Radii == {456, 1000, 3500, 5000, 13000}

\* school_bus_info: None, an empty dict, a dict with one key, a full dict.
BusInfos ==
    { None,
      Some(<<>>),
      Some([route_name |-> "Route C"]),
      Some([route_name |-> "Route B", pickup_time |-> "8:15 AM",
            pickup_location |-> "Central Station"]) }

\* Distances (metres) the single estimators are called with: negative, zero,
\* every quarter km, and the metres next to the band boundaries.
DistanceInputs ==
    { 250 * k : k \in (0 - 4)..MaxQuarterKm }
    \cup {1, 1999, 2001, 4999, 5001, 14999, 15001}

\* Base durations (minutes) calculate_morning_commute_time is called with.
BaseMinutes == 0..MaxBaseMinutes

\* departure_time: None, or a time of day, given by its hour.
DepartureTimes == {None} \cup { Some(hour) : hour \in 0..23 }

\* Distances (decimetres) format_distance is called with: every decimetre up
\* to the bound, and 1.95 km, 9.949 km, 9.95 km and 20 km.
FormatInputs == 0..MaxDecimetres \cup {19500, 99490, 99500, 200000}

\* The (address, city) tuples batch_geocode_with_delay is called with, and
\* its lists: every list of at most MaxAddresses of them, repeats included.
BatchAddresses == { <<"Dam 1", "Amsterdam">>, <<"Hoofdweg 123", "Amsterdam">> }

BatchLists ==
    UNION { [1..n -> BatchAddresses] : n \in 0..MaxAddresses }

\* delay, in seconds.
BatchDelays == {0, 1}

\* The address parameter of the requests: "street, city" and a city.
RequestAddresses == {"Dam 1, Amsterdam", "Amsterdam"}

AddressesWithComma == {"Dam 1, Amsterdam"}

\* key = f"{address}, {city}" of batch_geocode_with_delay
BatchKey(entry) ==
    entry[1] \o ", " \o entry[2]

\* The coordinates Nominatim has for them.
NominatimCoords ==
    [address \in RequestAddresses \cup { BatchKey(entry) : entry \in BatchAddresses } |->
        IF address = "Dam 1, Amsterdam" THEN <<523676, 49041>>
        ELSE IF address = "Hoofdweg 123, Amsterdam" THEN <<523766, 49191>>
        ELSE <<523717, 49041>>]

\* What the geocoding request of a request does: it has a result, it has
\* none, or it raises (no connection, a timeout, an HTTP error status).
GeocodingOutcomes == {"found", "not_found", "request_error"}

\* What the storage does on a query of a request: it answers, or it raises.
StorageOutcomes == {"ok", "error"}

\* The exception the storage raises.
StorageError ==
    [type |-> "OperationalError", message |-> "database is locked"]

\* radius_km (metres) of the requests: negative, zero, just below and at the
\* least radius (0.1 km), the default, and just above the largest (50 km).
RequestRadii == {0 - 1000, 0, 99, 100, 5000, 50001}

\* Centres and radii (metres) search_schools_by_proximity is called with by
\* a caller other than the endpoint, which passes none of them: a negative
\* and a zero radius, and a centre of latitude 95 degrees.
UnvalidatedCalls ==
    (Addresses \X {0 - 1000, 0}) \cup { << <<950000, 49041>>, 5000 >> }

\* Centres calculate_bounding_box is called with: Amsterdam, Maastricht and
\* Groningen (geocoding is limited to the Netherlands).
BoxCentres == { <<523676, 49041>>, <<508514, 56910>>, <<532194, 65665>> }

\* Radii (metres) calculate_bounding_box is called with, from the least to
\* the largest radius of the endpoint.
BoxRadii == {100, 1000, 3500, 5000, 13000, 50000}

\* The coroutines, and the requests served at the same time by the worker
\* threads (FastAPI runs a `def` endpoint in its thread pool).
Tasks == 1..MaxTasks

Viewers == 1..MaxViewers

Updaters == 1..MaxUpdaters

\* Arguments of the concurrent get_transportation_for_school calls: the same
\* place (no route), 1.5 km, 4.99 km with an empty bus dict, and 20 km with
\* a school bus.
TaskArguments ==
    { [school_lat |-> 523676, school_lon |-> 49041, from_lat |-> 523676, from_lon |-> 49041,
       include_school_bus |-> FALSE, school_bus_info |-> None],
      [school_lat |-> 523811, school_lon |-> 49041, from_lat |-> 523676, from_lon |-> 49041,
       include_school_bus |-> FALSE, school_bus_info |-> None],
      [school_lat |-> 524125, school_lon |-> 49041, from_lat |-> 523676, from_lon |-> 49041,
       include_school_bus |-> TRUE, school_bus_info |-> Some(<<>>)],
      [school_lat |-> 525475, school_lon |-> 49041, from_lat |-> 523676, from_lon |-> 49041,
       include_school_bus |-> TRUE,
       school_bus_info |-> Some([route_name |-> "Route B", pickup_time |-> "8:15 AM",
                                 pickup_location |-> "Central Station"])] }

\* share_id of the n-th comparison (secrets.token_urlsafe(16): a fresh token
\* for every row; the column is unique).
ShareToken(n) ==
    "token-" \o ToString(n)

\* The share_id of the GET /share/{share_id} requests: the tokens, and a
\* string that is no row's token.
RequestedShareIds ==
    { ShareToken(n) : n \in 1..MaxComparisons } \cup { "unknown" }

\* timedelta(days=30) and the 31 days the clock is moved on at once, in hours.
ShareLifetime == 720

ClockJump == 744

\* The bodies of POST /application-status: two families, one school; a
\* family that is on the waiting list gives its position and a note.
StatusRequests ==
    { [user_email |-> user_email, school_id |-> 1, status |-> "applied",
       waiting_list_position |-> None, notes |-> None]
        : user_email \in {"ouder@example.nl", "voogd@example.nl"} }
    \cup
    { [user_email |-> user_email, school_id |-> 1, status |-> "waiting",
       waiting_list_position |-> Some(3), notes |-> Some("derde op de wachtlijst")]
        : user_email \in {"ouder@example.nl", "voogd@example.nl"} }

\* Points haversine_distance is called on, grid by grid (latitudes x
\* longitudes): Amsterdam and Rotterdam; a point of the North Atlantic and
\* its antipode; two antipodal points of the equator; the two poles.
HaversineGrids ==
    { {523676, 519225} \X {49041, 44792},
      {510579, 0 - 510579} \X {0 - 323125, 1476875},
      {0} \X {0, 1800000},
      {900000, 0 - 900000} \X {0} }

(***************************************************************************)
(* distance.py                                                             *)
(***************************************************************************)
\* haversine_distance(lat1, lon1, lat2, lon2) in whole metres (floor).
\* The haversine formula needs about 12 significant digits for distances of
\* a few km (a = sin^2(dlat/2) + ... is of the order 1e-7), more than TLC's
\* 32-bit integers carry, so the function is given by its graph on the
\* model's coordinates: each entry is int(1000 * haversine_distance(...)) as
\* distance.py computes it in IEEE doubles, with R = 6371.0.  No entry other
\* than 0 is a whole number of metres, so "distance <= radius" on a radius
\* of whole metres is decided by the floored value.
HaversineMetres ==
       <<523676, 49041, 523676, 49041>> :> 0
    @@ <<523676, 49041, 523811, 49041>> :> 1501
    @@ <<523676, 49041, 523855, 49041>> :> 1990
    @@ <<523676, 49041, 523856, 49041>> :> 2001
    @@ <<523676, 49041, 523946, 49041>> :> 3002
    @@ <<523676, 49041, 524018, 49041>> :> 3802
    @@ <<523676, 49041, 524027, 49041>> :> 3902
    @@ <<523676, 49041, 524125, 49041>> :> 4992
    @@ <<523676, 49041, 524126, 49041>> :> 5003
    @@ <<523676, 49041, 524056, 49666>> :> 5987
    @@ <<523676, 49041, 524755, 49041>> :> 11997
    @@ <<523676, 49041, 525016, 49041>> :> 14900
    @@ <<523676, 49041, 525034, 49041>> :> 15100
    @@ <<523676, 49041, 525052, 49041>> :> 15300
    @@ <<523676, 49041, 525475, 49041>> :> 20003
    @@ <<523766, 49191, 523676, 49041>> :> 1427
    @@ <<523766, 49191, 523811, 49041>> :> 1134
    @@ <<523766, 49191, 523855, 49041>> :> 1419
    @@ <<523766, 49191, 523856, 49041>> :> 1427
    @@ <<523766, 49191, 523946, 49041>> :> 2245
    @@ <<523766, 49191, 524018, 49041>> :> 2981
    @@ <<523766, 49191, 524027, 49041>> :> 3075
    @@ <<523766, 49191, 524125, 49041>> :> 4119
    @@ <<523766, 49191, 524126, 49041>> :> 4130
    @@ <<523766, 49191, 524056, 49666>> :> 4559
    @@ <<523766, 49191, 524755, 49041>> :> 11044
    @@ <<523766, 49191, 525016, 49041>> :> 13936
    @@ <<523766, 49191, 525034, 49041>> :> 14136
    @@ <<523766, 49191, 525052, 49041>> :> 14335
    @@ <<523766, 49191, 525475, 49041>> :> 19030
    @@ <<523717, 49041, 523676, 49041>> :> 455
    @@ <<523717, 49041, 523811, 49041>> :> 1045
    @@ <<523717, 49041, 523855, 49041>> :> 1534
    @@ <<523717, 49041, 523856, 49041>> :> 1545
    @@ <<523717, 49041, 523946, 49041>> :> 2546
    @@ <<523717, 49041, 524018, 49041>> :> 3346
    @@ <<523717, 49041, 524027, 49041>> :> 3447
    @@ <<523717, 49041, 524125, 49041>> :> 4536
    @@ <<523717, 49041, 524126, 49041>> :> 4547
    @@ <<523717, 49041, 524056, 49666>> :> 5674
    @@ <<523717, 49041, 524755, 49041>> :> 11542
    @@ <<523717, 49041, 525016, 49041>> :> 14444
    @@ <<523717, 49041, 525034, 49041>> :> 14644
    @@ <<523717, 49041, 525052, 49041>> :> 14844
    @@ <<523717, 49041, 525475, 49041>> :> 19548
    \* centres and points on their parallel, next to the edge of each radius
    \* and of its bounding box, east and west
    @@ <<523676, 49041, 523676, 49054>> :> 88
    @@ <<523676, 49041, 523676, 49028>> :> 88
    @@ <<523676, 49041, 523676, 49055>> :> 95
    @@ <<523676, 49041, 523676, 49027>> :> 95
    @@ <<523676, 49041, 523676, 49056>> :> 101
    @@ <<523676, 49041, 523676, 49026>> :> 101
    @@ <<523676, 49041, 523676, 49187>> :> 991
    @@ <<523676, 49041, 523676, 48895>> :> 991
    @@ <<523676, 49041, 523676, 49188>> :> 998
    @@ <<523676, 49041, 523676, 48894>> :> 998
    @@ <<523676, 49041, 523676, 49189>> :> 1004
    @@ <<523676, 49041, 523676, 48893>> :> 1004
    @@ <<523676, 49041, 523676, 49555>> :> 3489
    @@ <<523676, 49041, 523676, 48527>> :> 3489
    @@ <<523676, 49041, 523676, 49556>> :> 3496
    @@ <<523676, 49041, 523676, 48526>> :> 3496
    @@ <<523676, 49041, 523676, 49557>> :> 3503
    @@ <<523676, 49041, 523676, 48525>> :> 3503
    @@ <<523676, 49041, 523676, 49558>> :> 3510
    @@ <<523676, 49041, 523676, 48524>> :> 3510
    @@ <<523676, 49041, 523676, 49776>> :> 4990
    @@ <<523676, 49041, 523676, 48306>> :> 4990
    @@ <<523676, 49041, 523676, 49777>> :> 4997
    @@ <<523676, 49041, 523676, 48305>> :> 4997
    @@ <<523676, 49041, 523676, 49778>> :> 5003
    @@ <<523676, 49041, 523676, 48304>> :> 5003
    @@ <<523676, 49041, 523676, 49779>> :> 5010
    @@ <<523676, 49041, 523676, 48303>> :> 5010
    @@ <<523676, 49041, 523676, 50954>> :> 12988
    @@ <<523676, 49041, 523676, 47128>> :> 12988
    @@ <<523676, 49041, 523676, 50955>> :> 12995
    @@ <<523676, 49041, 523676, 47127>> :> 12995
    @@ <<523676, 49041, 523676, 50956>> :> 13001
    @@ <<523676, 49041, 523676, 47126>> :> 13001
    @@ <<523676, 49041, 523676, 50959>> :> 13022
    @@ <<523676, 49041, 523676, 47123>> :> 13022
    @@ <<523676, 49041, 523676, 50960>> :> 13029
    @@ <<523676, 49041, 523676, 47122>> :> 13029
    @@ <<523676, 49041, 523676, 56404>> :> 49990
    @@ <<523676, 49041, 523676, 41678>> :> 49990
    @@ <<523676, 49041, 523676, 56405>> :> 49997
    @@ <<523676, 49041, 523676, 41677>> :> 49997
    @@ <<523676, 49041, 523676, 56406>> :> 50004
    @@ <<523676, 49041, 523676, 41676>> :> 50004
    @@ <<523676, 49041, 523676, 56418>> :> 50085
    @@ <<523676, 49041, 523676, 41664>> :> 50085
    @@ <<523676, 49041, 523676, 56419>> :> 50092
    @@ <<523676, 49041, 523676, 41663>> :> 50092
    @@ <<508514, 56910, 508514, 56923>> :> 91
    @@ <<508514, 56910, 508514, 56897>> :> 91
    @@ <<508514, 56910, 508514, 56924>> :> 98
    @@ <<508514, 56910, 508514, 56896>> :> 98
    @@ <<508514, 56910, 508514, 56925>> :> 105
    @@ <<508514, 56910, 508514, 56895>> :> 105
    @@ <<508514, 56910, 508514, 57051>> :> 989
    @@ <<508514, 56910, 508514, 56769>> :> 989
    @@ <<508514, 56910, 508514, 57052>> :> 996
    @@ <<508514, 56910, 508514, 56768>> :> 996
    @@ <<508514, 56910, 508514, 57053>> :> 1003
    @@ <<508514, 56910, 508514, 56767>> :> 1003
    @@ <<508514, 56910, 508514, 57407>> :> 3488
    @@ <<508514, 56910, 508514, 56413>> :> 3488
    @@ <<508514, 56910, 508514, 57408>> :> 3496
    @@ <<508514, 56910, 508514, 56412>> :> 3496
    @@ <<508514, 56910, 508514, 57409>> :> 3503
    @@ <<508514, 56910, 508514, 56411>> :> 3503
    @@ <<508514, 56910, 508514, 57410>> :> 3510
    @@ <<508514, 56910, 508514, 56410>> :> 3510
    @@ <<508514, 56910, 508514, 57621>> :> 4991
    @@ <<508514, 56910, 508514, 56199>> :> 4991
    @@ <<508514, 56910, 508514, 57622>> :> 4998
    @@ <<508514, 56910, 508514, 56198>> :> 4998
    @@ <<508514, 56910, 508514, 57623>> :> 5005
    @@ <<508514, 56910, 508514, 56197>> :> 5005
    @@ <<508514, 56910, 508514, 57624>> :> 5012
    @@ <<508514, 56910, 508514, 56196>> :> 5012
    @@ <<508514, 56910, 508514, 58760>> :> 12987
    @@ <<508514, 56910, 508514, 55060>> :> 12987
    @@ <<508514, 56910, 508514, 58761>> :> 12994
    @@ <<508514, 56910, 508514, 55059>> :> 12994
    @@ <<508514, 56910, 508514, 58762>> :> 13001
    @@ <<508514, 56910, 508514, 55058>> :> 13001
    @@ <<508514, 56910, 508514, 58765>> :> 13022
    @@ <<508514, 56910, 508514, 55055>> :> 13022
    @@ <<508514, 56910, 508514, 58766>> :> 13029
    @@ <<508514, 56910, 508514, 55054>> :> 13029
    @@ <<508514, 56910, 508514, 64031>> :> 49990
    @@ <<508514, 56910, 508514, 49789>> :> 49990
    @@ <<508514, 56910, 508514, 64032>> :> 49997
    @@ <<508514, 56910, 508514, 49788>> :> 49997
    @@ <<508514, 56910, 508514, 64033>> :> 50004
    @@ <<508514, 56910, 508514, 49787>> :> 50004
    @@ <<508514, 56910, 508514, 64044>> :> 50081
    @@ <<508514, 56910, 508514, 49776>> :> 50081
    @@ <<508514, 56910, 508514, 64045>> :> 50088
    @@ <<508514, 56910, 508514, 49775>> :> 50088
    @@ <<532194, 65665, 532194, 65679>> :> 93
    @@ <<532194, 65665, 532194, 65651>> :> 93
    @@ <<532194, 65665, 532194, 65680>> :> 99
    @@ <<532194, 65665, 532194, 65650>> :> 99
    @@ <<532194, 65665, 532194, 65681>> :> 106
    @@ <<532194, 65665, 532194, 65649>> :> 106
    @@ <<532194, 65665, 532194, 65814>> :> 992
    @@ <<532194, 65665, 532194, 65516>> :> 992
    @@ <<532194, 65665, 532194, 65815>> :> 998
    @@ <<532194, 65665, 532194, 65515>> :> 998
    @@ <<532194, 65665, 532194, 65816>> :> 1005
    @@ <<532194, 65665, 532194, 65514>> :> 1005
    @@ <<532194, 65665, 532194, 66189>> :> 3488
    @@ <<532194, 65665, 532194, 65141>> :> 3488
    @@ <<532194, 65665, 532194, 66190>> :> 3495
    @@ <<532194, 65665, 532194, 65140>> :> 3495
    @@ <<532194, 65665, 532194, 66191>> :> 3502
    @@ <<532194, 65665, 532194, 65139>> :> 3502
    @@ <<532194, 65665, 532194, 66192>> :> 3508
    @@ <<532194, 65665, 532194, 65138>> :> 3508
    @@ <<532194, 65665, 532194, 66414>> :> 4986
    @@ <<532194, 65665, 532194, 64916>> :> 4986
    @@ <<532194, 65665, 532194, 66415>> :> 4993
    @@ <<532194, 65665, 532194, 64915>> :> 4993
    @@ <<532194, 65665, 532194, 66416>> :> 5000
    @@ <<532194, 65665, 532194, 64914>> :> 5000
    @@ <<532194, 65665, 532194, 66417>> :> 5006
    @@ <<532194, 65665, 532194, 64913>> :> 5006
    @@ <<532194, 65665, 532194, 66418>> :> 5013
    @@ <<532194, 65665, 532194, 64912>> :> 5013
    @@ <<532194, 65665, 532194, 67616>> :> 12989
    @@ <<532194, 65665, 532194, 63714>> :> 12989
    @@ <<532194, 65665, 532194, 67617>> :> 12996
    @@ <<532194, 65665, 532194, 63713>> :> 12996
    @@ <<532194, 65665, 532194, 67618>> :> 13002
    @@ <<532194, 65665, 532194, 63712>> :> 13002
    @@ <<532194, 65665, 532194, 67621>> :> 13022
    @@ <<532194, 65665, 532194, 63709>> :> 13022
    @@ <<532194, 65665, 532194, 67622>> :> 13029
    @@ <<532194, 65665, 532194, 63708>> :> 13029
    @@ <<532194, 65665, 532194, 73173>> :> 49986
    @@ <<532194, 65665, 532194, 58157>> :> 49986
    @@ <<532194, 65665, 532194, 73174>> :> 49993
    @@ <<532194, 65665, 532194, 58156>> :> 49993
    @@ <<532194, 65665, 532194, 73175>> :> 50000
    @@ <<532194, 65665, 532194, 58155>> :> 50000
    @@ <<532194, 65665, 532194, 73188>> :> 50086
    @@ <<532194, 65665, 532194, 58142>> :> 50086
    @@ <<532194, 65665, 532194, 73189>> :> 50093
    @@ <<532194, 65665, 532194, 58141>> :> 50093
    @@ <<523676, 49041, 523680, 49041>> :> 44
    @@ <<523766, 49191, 523680, 49041>> :> 1396
    @@ <<523717, 49041, 523680, 49041>> :> 411
    @@ <<523676, 49041, 523676, 44792>> :> 28848
    @@ <<523676, 49041, 519225, 49041>> :> 49492
    @@ <<523676, 49041, 519225, 44792>> :> 57359
    @@ <<523676, 44792, 523676, 49041>> :> 28848
    @@ <<523676, 44792, 523676, 44792>> :> 0
    @@ <<523676, 44792, 519225, 49041>> :> 57359
    @@ <<523676, 44792, 519225, 44792>> :> 49492
    @@ <<519225, 49041, 523676, 49041>> :> 49492
    @@ <<519225, 49041, 523676, 44792>> :> 57359
    @@ <<519225, 49041, 519225, 49041>> :> 0
    @@ <<519225, 49041, 519225, 44792>> :> 29138
    @@ <<519225, 44792, 523676, 49041>> :> 57359
    @@ <<519225, 44792, 523676, 44792>> :> 49492
    @@ <<519225, 44792, 519225, 49041>> :> 29138
    @@ <<519225, 44792, 519225, 44792>> :> 0
    @@ <<510579, (0 - 323125), 510579, (0 - 323125)>> :> 0
    @@ <<510579, (0 - 323125), 510579, 1476875>> :> 8660327
    @@ <<510579, (0 - 323125), (0 - 510579), (0 - 323125)>> :> 11354758
    @@ <<510579, 1476875, 510579, (0 - 323125)>> :> 8660327
    @@ <<510579, 1476875, 510579, 1476875>> :> 0
    @@ <<510579, 1476875, (0 - 510579), 1476875>> :> 11354758
    @@ <<(0 - 510579), (0 - 323125), 510579, (0 - 323125)>> :> 11354758
    @@ <<(0 - 510579), (0 - 323125), (0 - 510579), (0 - 323125)>> :> 0
    @@ <<(0 - 510579), (0 - 323125), (0 - 510579), 1476875>> :> 8660327
    @@ <<(0 - 510579), 1476875, 510579, 1476875>> :> 11354758
    @@ <<(0 - 510579), 1476875, (0 - 510579), (0 - 323125)>> :> 8660327
    @@ <<(0 - 510579), 1476875, (0 - 510579), 1476875>> :> 0
    @@ <<0, 0, 0, 0>> :> 0
    @@ <<0, 0, 0, 1800000>> :> 20015086
    @@ <<0, 1800000, 0, 0>> :> 20015086
    @@ <<0, 1800000, 0, 1800000>> :> 0
    @@ <<900000, 0, 900000, 0>> :> 0
    @@ <<900000, 0, (0 - 900000), 0>> :> 20015086
    @@ <<(0 - 900000), 0, 900000, 0>> :> 20015086
    @@ <<(0 - 900000), 0, (0 - 900000), 0>> :> 0

\* The latitude of the first point taken for both points (dlat = 0 and
\* cos(lat1_rad) twice).
haversine_distance_FirstLatitude(lat1, lon1, lat2, lon2) ==
    HaversineMetres[<<lat1, lon1, lat1, lon2>>]

haversine_distance(lat1, lon1, lat2, lon2) ==
    HaversineMetres[<<lat1, lon1, lat2, lon2>>]

\* The arguments on which a, as distance.py computes it in IEEE doubles, is
\* greater than 1 (1.0000000000000002), so that math.sqrt(1 - a) raises
\* ValueError("math domain error"): a is not clamped before the square root.
SqrtDomainError ==
    {
      <<510579, (0 - 323125), (0 - 510579), 1476875>>,
      <<510579, 1476875, (0 - 510579), (0 - 323125)>>,
      <<(0 - 510579), (0 - 323125), 510579, 1476875>>,
      <<(0 - 510579), 1476875, 510579, (0 - 323125)>> }

\* What a call of haversine_distance does: it returns the distance or raises.
HaversineOutcome(lat1, lon1, lat2, lon2) ==
    IF <<lat1, lon1, lat2, lon2>> \in SqrtDomainError
    THEN [raised |-> Some("ValueError"), value |-> None]
    ELSE [raised |-> None, value |-> Some(haversine_distance(lat1, lon1, lat2, lon2))]

\* a * b / 1e6 for fixed-point numbers 0 <= a, b < 4.6e6 (scale 1e6),
\* multiplied limb by limb so that no product leaves 32 bits.
MulFix(a, b) ==
    LET a1 == a \div 1000
        a0 == a % 1000
        b1 == b \div 1000
        b0 == b % 1000
    IN  a1 * b1 + (a1 * b0 + a0 * b1 + (a0 * b0) \div 1000) \div 1000

\* math.radians(lat) * 1e6, lat in 1e-4 degree: lat * 1.74533
\* (pi / 180 = 0.0174533).
math_radians(lat) ==
    lat + ((lat \div 10) * 7453) \div 1000 + (lat * 3) \div 100000

\* The terms x^(2k) / (2k)! of the cosine series from term k on, x2 = x*x,
\* summed with alternating sign (scale 1e6).
RECURSIVE CosSeries(_, _, _)
CosSeries(term, x2, k) ==
    IF term = 0 THEN 0
    ELSE term - CosSeries(MulFix(term, x2) \div ((2 * k + 1) * (2 * k + 2)), x2, k + 1)

\* math.cos(x) * 1e6 for 0 <= x <= 1.7, x in 1e-6 rad.
math_cos(x) ==
    CosSeries(1000000, MulFix(x, x), 0)

\* Mutant: the longitude offset without the cosine of the latitude.
calculate_bounding_box_NoCos(lat, lon, distance_m) ==
    LET lat_offset == (distance_m * 10) \div 111
        lon_offset == (distance_m * 10) \div 111
    IN  <<lat - lat_offset, lat + lat_offset, lon - lon_offset, lon + lon_offset>>

\* calculate_bounding_box(lat, lon, distance_km): <<min_lat, max_lat, min_lon,
\* max_lon>>.  The offsets are floored to 1e-4 degree, which decides
\* membership of coordinates that are whole multiples of 1e-4 degree exactly
\* as the unrounded box does.
calculate_bounding_box(lat, lon, distance_m) ==
    LET \* distance_km * (1 / 111.0) degrees
        lat_offset == (distance_m * 10) \div 111
        \* distance_km * (1 / (111.0 * cos(radians(lat)))) degrees
        lon_offset == (distance_m * 10000) \div ((111 * math_cos(math_radians(lat))) \div 1000)
    IN  <<lat - lat_offset, lat + lat_offset, lon - lon_offset, lon + lon_offset>>

\* The distances x.x5 km (given by their tenths of a km, 11 for 1.15 km) up to
\* 40 km that "%.1f" renders with the lower tenth: the double nearest to the
\* distance lies below it, or is the distance itself and the lower tenth is
\* even.  Every other distance x.x5 km is rendered with the upper tenth.
HalfDownTenths ==
    { 11, 12, 14, 16, 19, 20, 21, 22, 25, 26, 30, 31, 32, 35, 36, 40,
      42, 43, 45, 48, 50, 52, 53, 55, 58, 60, 62, 63, 65, 68, 70, 72,
      73, 75, 78, 82, 83, 84, 88, 89, 92, 93, 94, 98, 99, 102, 103, 104,
      108, 109, 112, 113, 114, 118, 119, 122, 123, 124, 128, 129, 132,
      133, 134, 138, 139, 142, 143, 144, 148, 149, 152, 153, 154, 158,
      159, 161, 162, 164, 166, 169, 171, 172, 174, 176, 179, 181, 182,
      184, 186, 189, 191, 192, 194, 196, 199, 201, 202, 204, 206, 209,
      211, 212, 214, 216, 219, 221, 222, 224, 226, 229, 231, 232, 234,
      236, 239, 241, 242, 244, 246, 249, 251, 252, 254, 256, 259, 261,
      262, 264, 266, 269, 271, 272, 274, 276, 279, 281, 282, 284, 286,
      289, 291, 292, 294, 296, 299, 301, 302, 304, 306, 309, 311, 312,
      314, 316, 319, 320, 321, 322, 325, 326, 330, 331, 332, 335, 336,
      340, 341, 342, 345, 346, 350, 351, 352, 355, 356, 360, 361, 362,
      365, 366, 370, 371, 372, 375, 376, 380, 381, 382, 385, 386, 390,
      391, 392, 395, 396 }

\* Mutant: round(distance_km * 1000), the nearest metre.
format_distance_Rounded(distance_dm) ==
    IF distance_dm < 10000
    THEN ToString((distance_dm + 5) \div 10) \o " m"
    ELSE LET tenths == (distance_dm + 500) \div 1000
         IN  ToString(tenths \div 10) \o "." \o ToString(tenths % 10) \o " km"

\* format_distance(distance_km), the distance in decimetres (1e-4 km):
\* int(distance_km * 1000) metres below 1 km, else "%.1f" of the kilometres.
format_distance(distance_dm) ==
    IF distance_dm < 10000
    THEN ToString(distance_dm \div 10) \o " m"
    ELSE LET tenths == IF distance_dm % 1000 = 500
                          /\ (distance_dm \div 1000) \in HalfDownTenths
                       THEN distance_dm \div 1000
                       ELSE (distance_dm + 500) \div 1000
         IN  ToString(tenths \div 10) \o "." \o ToString(tenths % 10) \o " km"

(***************************************************************************)
(* crud.py                                                                 *)
(***************************************************************************)
\* SQL lower() on the school types of the model.
lower(s) ==
    CASE s = "Primary" -> "primary"
      [] s = "Secondary" -> "secondary"
      [] OTHER -> s

\* create_school: the new row gets the next id of the table.
create_school(db, school_data) ==
    Append(db, [id |-> Len(db) + 1,
                school_type |-> school_data.school_type,
                inspection_score |-> school_data.inspection_score,
                is_bilingual |-> school_data.is_bilingual,
                is_international |-> school_data.is_international,
                latitude |-> school_data.latitude,
                longitude |-> school_data.longitude])

\* The attribute filters of the query; a filter applies when its parameter
\* is truthy.
MatchesFilters(school, params) ==
    /\ params.school_type /= None => lower(school.school_type) = lower(params.school_type[1])
    /\ params.min_rating /= 0 => school.inspection_score >= params.min_rating
    /\ params.bilingual => school.is_bilingual
    /\ params.international => school.is_international

\* The bounding-box filter and the NOT NULL filter of the query; a comparison
\* with a NULL column is not true.
InBoundingBox(school, box) ==
    /\ school.latitude /= None
    /\ school.longitude /= None
    /\ school.latitude[1] >= box[1]
    /\ school.latitude[1] <= box[2]
    /\ school.longitude[1] >= box[3]
    /\ school.longitude[1] <= box[4]

\* Mutant: the exact-distance check left out (the bounding box alone decides).
WithinRadius_BoxOnly(distance, radius_m) ==
    TRUE

\* Mutant: the comparison of the exact-distance check reversed.
WithinRadius_Reversed(distance, radius_m) ==
    distance >= radius_m

\* "if distance <= radius_km"
WithinRadius(distance, radius_m) ==
    distance <= radius_m

\* Mutant: round(distance, 1), the nearest 100 m.
round2_OneDecimal(distance_m) ==
    ((distance_m + 50) \div 100) * 10

\* round(distance, 2), in units of 10 m
round2(distance_m) ==
    (distance_m + 5) \div 10

\* Mutant: distance_formatted made from the rounded distance_km field.
SchoolWithDistance_FormatRounded(school, distance) ==
    [id |-> school.id,
     school_type |-> school.school_type,
     inspection_score |-> school.inspection_score,
     is_bilingual |-> school.is_bilingual,
     is_international |-> school.is_international,
     latitude |-> school.latitude,
     longitude |-> school.longitude,
     distance_km |-> round2(distance),
     distance_formatted |-> format_distance(round2(distance) * 100)]

\* SchoolWithDistance(**school_dict)
SchoolWithDistance(school, distance) ==
    [id |-> school.id,
     school_type |-> school.school_type,
     inspection_score |-> school.inspection_score,
     is_bilingual |-> school.is_bilingual,
     is_international |-> school.is_international,
     latitude |-> school.latitude,
     longitude |-> school.longitude,
     distance_km |-> round2(distance),
     \* the distance in decimetres: a distance of the table stands for a
     \* value between two whole metres (or is 0)
     distance_formatted |-> format_distance(distance * 10 + 5)]

\* list.sort(key=lambda s: s.distance_km): a stable sort, here by insertion
\* of each element behind the elements whose key is not greater.
RECURSIVE InsertByDistance(_, _)
InsertByDistance(sorted, x) ==
    IF sorted = <<>> THEN <<x>>
    ELSE IF x.distance_km < Head(sorted).distance_km THEN <<x>> \o sorted
    ELSE <<Head(sorted)>> \o InsertByDistance(Tail(sorted), x)

\* Mutant: the list is left in the order of the rows.
SortByDistance_Unsorted(list) ==
    list

RECURSIVE SortByDistance(_)
SortByDistance(list) ==
    IF list = <<>> THEN <<>>
    ELSE InsertByDistance(SortByDistance(SubSeq(list, 1, Len(list) - 1)), list[Len(list)])

\* Mutant: the limit is not applied.
ApplyLimit_Unlimited(list, limit) ==
    list

\* Mutant: list[-limit:], the last elements are kept.
ApplyLimit_Tail(list, limit) ==
    SubSeq(list, (IF limit < Len(list) THEN Len(list) - limit ELSE 0) + 1, Len(list))

\* list[:limit], limit >= 1
ApplyLimit(list, limit) ==
    SubSeq(list, 1, IF limit < Len(list) THEN limit ELSE Len(list))

\* The rows the loop appends: those of query.all() within the radius, each
\* with its distance, in the order of the rows.
RECURSIVE SchoolsWithDistance(_, _, _, _)
SchoolsWithDistance(rows, latitude, longitude, radius_m) ==
    IF rows = <<>> THEN <<>>
    ELSE LET school == Head(rows)
             distance == haversine_distance(latitude, longitude,
                                            school.latitude[1], school.longitude[1])
             rest == SchoolsWithDistance(Tail(rows), latitude, longitude, radius_m)
         IN  IF WithinRadius(distance, radius_m)
             THEN <<SchoolWithDistance(school, distance)>> \o rest
             ELSE rest

\* query.all(): the rows passing the attribute, bounding-box and NOT NULL
\* filters, in table order.
QueryAll(db, params, latitude, longitude, radius_m) ==
    LET box == calculate_bounding_box(latitude, longitude, radius_m)
    IN  SelectSeq(db, LAMBDA school: MatchesFilters(school, params) /\ InBoundingBox(school, box))

search_schools_by_proximity(db, params, latitude, longitude, radius_m) ==
    ApplyLimit(
        SortByDistance(
            SchoolsWithDistance(QueryAll(db, params, latitude, longitude, radius_m),
                                latitude, longitude, radius_m)),
        params.limit)

(***************************************************************************)
(* transportation_service.py                                               *)
(***************************************************************************)
\* Where int((distance_km / speed) * 60) in IEEE doubles is one less than
\* the exact quotient's floor, among the distances of whole metres up to
\* 40 km and the speeds 5, 15, 20, 25, 30 and 40 km/h.
FloatShortfall(distance_m, speed_kmh) ==
    IF <<distance_m, speed_kmh>> \in {<<10250, 5>>, <<20500, 5>>, <<30750, 15>>} THEN 1 ELSE 0

\* Mutant: round((distance_km / speed) * 60), the nearest minute.
TravelMinutes_Rounded(distance_m, speed_kmh) ==
    (distance_m * 60 + speed_kmh * 500) \div (speed_kmh * 1000)

\* int((distance_km / speed) * 60) for distance_km > 0
TravelMinutes(distance_m, speed_kmh) ==
    (distance_m * 60) \div (speed_kmh * 1000) - FloatShortfall(distance_m, speed_kmh)

\* Mutant: "if distance_km < 0", a zero distance gives a zero-duration estimate.
calculate_walking_time_ZeroEstimate(distance_m) ==
    IF distance_m < 0 THEN None
    ELSE Some([mode |-> "walking",
               distance_km |-> round2(distance_m),
               duration_minutes |-> TravelMinutes(distance_m, 5),
               display |-> ToString(TravelMinutes(distance_m, 5)) \o " min walk"])

calculate_walking_time(distance_m) ==
    IF distance_m <= 0 THEN None
    ELSE LET duration_minutes == TravelMinutes(distance_m, 5)
         IN  Some([mode |-> "walking",
                   distance_km |-> round2(distance_m),
                   duration_minutes |-> duration_minutes,
                   display |-> ToString(duration_minutes) \o " min walk"])

calculate_cycling_time(distance_m) ==
    IF distance_m <= 0 THEN None
    ELSE LET duration_minutes == TravelMinutes(distance_m, 15)
         IN  Some([mode |-> "cycling",
                   distance_km |-> round2(distance_m),
                   duration_minutes |-> duration_minutes,
                   display |-> ToString(duration_minutes) \o " min by bike"])

calculate_driving_time(distance_m) ==
    IF distance_m <= 0 THEN None
    ELSE LET duration_minutes == TravelMinutes(distance_m, 30)
         IN  Some([mode |-> "driving",
                   distance_km |-> round2(distance_m),
                   duration_minutes |-> duration_minutes,
                   display |-> ToString(duration_minutes) \o " min drive"])

\* Mutant: "total_time = travel_time", the wait is not added.
TransitEstimate_NoWait(distance_m, speed_kmh, wait_time, transit_type, label, lines, transfers) ==
    LET total_time == TravelMinutes(distance_m, speed_kmh)
    IN  Some([mode |-> "public_transit",
              distance_km |-> round2(distance_m),
              duration_minutes |-> total_time,
              transit_type |-> transit_type,
              display |-> ToString(total_time) \o " min (" \o label \o ")",
              details |-> [lines |-> <<lines>>,
                           transfers |-> transfers,
                           wait_time_minutes |-> wait_time]])

\* One band of _estimate_public_transit: the returned dict.
TransitEstimate(distance_m, speed_kmh, wait_time, transit_type, label, lines, transfers) ==
    LET travel_time == TravelMinutes(distance_m, speed_kmh)
        total_time == travel_time + wait_time
    IN  Some([mode |-> "public_transit",
              distance_km |-> round2(distance_m),
              duration_minutes |-> total_time,
              transit_type |-> transit_type,
              display |-> ToString(total_time) \o " min (" \o label \o ")",
              details |-> [lines |-> <<lines>>,
                           transfers |-> transfers,
                           wait_time_minutes |-> wait_time]])

\* Mutant: the bus_metro band with the wait of the bus_tram band (5 minutes).
_estimate_public_transit_ShortWait(distance_m) ==
    IF distance_m < 2000 THEN None
    ELSE IF distance_m < 5000
    THEN TransitEstimate(distance_m, 20, 5, "bus_tram", "bus/tram", "Estimated route", 0)
    ELSE IF distance_m < 15000
    THEN TransitEstimate(distance_m, 25, 5, "bus_metro", "metro/bus", "Metro or bus line", 1)
    ELSE TransitEstimate(distance_m, 40, 10, "train", "train + bus",
                         "NS Train line + local transport", 1)

\* Mutant: the band boundaries compared with <=, so that 2, 5 and 15 km
\* belong to the lower band.
_estimate_public_transit_Inclusive(distance_m) ==
    IF distance_m <= 2000 THEN None
    ELSE IF distance_m <= 5000
    THEN TransitEstimate(distance_m, 20, 5, "bus_tram", "bus/tram", "Estimated route", 0)
    ELSE IF distance_m <= 15000
    THEN TransitEstimate(distance_m, 25, 8, "bus_metro", "metro/bus", "Metro or bus line", 1)
    ELSE TransitEstimate(distance_m, 40, 10, "train", "train + bus",
                         "NS Train line + local transport", 1)

\* _estimate_public_transit
_estimate_public_transit(distance_m) ==
    IF distance_m < 2000 THEN None
    ELSE IF distance_m < 5000
    THEN TransitEstimate(distance_m, 20, 5, "bus_tram", "bus/tram", "Estimated route", 0)
    ELSE IF distance_m < 15000
    THEN TransitEstimate(distance_m, 25, 8, "bus_metro", "metro/bus", "Metro or bus line", 1)
    ELSE TransitEstimate(distance_m, 40, 10, "train", "train + bus",
                         "NS Train line + local transport", 1)

\* calculate_public_transit_route: with or without API keys the estimate is
\* returned (the API calls are not implemented).
calculate_public_transit_route(from_lat, from_lon, to_lat, to_lon) ==
    LET distance == haversine_distance(from_lat, from_lon, to_lat, to_lon)
    IN  IF distance <= 0 THEN None ELSE _estimate_public_transit(distance)

\* dict.get(key)
Get(dict, key) ==
    IF key \in DOMAIN dict THEN Some(dict[key]) ELSE None

\* Mutant: "school_bus_info is not None", an empty dict counts as given.
Truthy_NotNone(optional_dict) ==
    optional_dict /= None

\* A dict or None is truthy when it is a dict with at least one key.
Truthy(optional_dict) ==
    optional_dict /= None /\ DOMAIN optional_dict[1] /= {}

\* Mutant: "if walking and walking['duration_minutes'] < 45"
WalkingShown_Strict(walking) ==
    walking /= None /\ walking[1].duration_minutes < 45

\* "if walking and walking['duration_minutes'] <= 45"
WalkingShown(walking) ==
    walking /= None /\ walking[1].duration_minutes <= 45

\* "if cycling and cycling['duration_minutes'] <= 60"
CyclingShown(cycling) ==
    cycling /= None /\ cycling[1].duration_minutes <= 60

\* Mutant: driving dropped above a duration threshold, like walking and cycling.
DrivingShown_Threshold(driving) ==
    driving /= None /\ driving[1].duration_minutes <= 30

\* "if driving"
DrivingShown(driving) ==
    driving /= None

\* The school bus entry of calculate_all_routes.
SchoolBusRoute(school_bus_info) ==
    [mode |-> "school_bus",
     display |-> "School bus available",
     bus_route_name |-> Get(school_bus_info, "route_name"),
     bus_pickup_time |-> Get(school_bus_info, "pickup_time"),
     bus_pickup_location |-> Get(school_bus_info, "pickup_location"),
     details |-> school_bus_info]

\* list.sort(key=lambda x: x.get("duration_minutes", float("inf"))): stable;
\* every entry sorted here has a duration.
RECURSIVE InsertByDuration(_, _)
\* Mutant: an entry placed before the entries of equal duration (a sort that
\* is not stable).
InsertByDuration_BeforeEqual(sorted, x) ==
    IF sorted = <<>> THEN <<x>>
    ELSE IF x.duration_minutes <= Head(sorted).duration_minutes THEN <<x>> \o sorted
    ELSE <<Head(sorted)>> \o InsertByDuration(Tail(sorted), x)

InsertByDuration(sorted, x) ==
    IF sorted = <<>> THEN <<x>>
    ELSE IF x.duration_minutes < Head(sorted).duration_minutes THEN <<x>> \o sorted
    ELSE <<Head(sorted)>> \o InsertByDuration(Tail(sorted), x)

\* Mutant: the routes are left in the order they were appended.
SortByDuration_Unsorted(list) ==
    list

RECURSIVE SortByDuration(_)
SortByDuration(list) ==
    IF list = <<>> THEN <<>>
    ELSE InsertByDuration(SortByDuration(SubSeq(list, 1, Len(list) - 1)), list[Len(list)])

calculate_all_routes(from_lat, from_lon, to_lat, to_lon, include_school_bus, school_bus_info) ==
    LET distance == haversine_distance(from_lat, from_lon, to_lat, to_lon)
        walking == calculate_walking_time(distance)
        cycling == calculate_cycling_time(distance)
        public_transit == calculate_public_transit_route(from_lat, from_lon, to_lat, to_lon)
        driving == calculate_driving_time(distance)
        routes ==
            (IF WalkingShown(walking) THEN walking ELSE <<>>)
            \o (IF CyclingShown(cycling) THEN cycling ELSE <<>>)
            \o (IF public_transit /= None THEN public_transit ELSE <<>>)
            \o (IF DrivingShown(driving) THEN driving ELSE <<>>)
            \o (IF include_school_bus /\ Truthy(school_bus_info)
                THEN <<SchoolBusRoute(school_bus_info[1])>> ELSE <<>>)
        regular_routes == SelectSeq(routes, LAMBDA r : r.mode /= "school_bus")
        school_bus_routes == SelectSeq(routes, LAMBDA r : r.mode = "school_bus")
    IN  SortByDuration(regular_routes) \o school_bus_routes

\* Where int(base * 1.15) in IEEE doubles is one less than the exact
\* product's floor, among the durations up to 400 minutes.
FloatShortfall115(base_duration_minutes) ==
    IF base_duration_minutes \in {100, 180, 200, 220, 340, 360, 380} THEN 1 ELSE 0

\* Mutant: the rush hour divides the duration by 1.25 instead of multiplying.
calculate_morning_commute_time_Divided(base_duration_minutes, departure_time) ==
    LET hour == IF departure_time = None THEN 8 ELSE departure_time[1]
    IN  IF 7 <= hour /\ hour <= 9
        THEN (base_duration_minutes * 100) \div 125
        ELSE base_duration_minutes

\* Mutant: "if 6 <= hour <= 9", the hour 6 counted as rush hour.
calculate_morning_commute_time_RushFrom6(base_duration_minutes, departure_time) ==
    LET hour == IF departure_time = None THEN 8 ELSE departure_time[1]
    IN  IF 6 <= hour /\ hour <= 9
        THEN (base_duration_minutes * 125) \div 100
        ELSE IF 6 <= hour /\ hour <= 10
        THEN (base_duration_minutes * 115) \div 100 - FloatShortfall115(base_duration_minutes)
        ELSE base_duration_minutes

\* calculate_morning_commute_time(base_duration_minutes, departure_time);
\* departure_time is None or the hour of the given time.
calculate_morning_commute_time(base_duration_minutes, departure_time) ==
    LET hour == IF departure_time = None THEN 8 ELSE departure_time[1]
    IN  IF 7 <= hour /\ hour <= 9
        THEN (base_duration_minutes * 125) \div 100
        ELSE IF 6 <= hour /\ hour <= 10
        THEN (base_duration_minutes * 115) \div 100 - FloatShortfall115(base_duration_minutes)
        ELSE base_duration_minutes

\* Mutant: the adjusted time is stored as the route's duration_minutes too.
WithMorningCommute_Overwrite(route) ==
    IF "duration_minutes" \in DOMAIN route /\ route.mode /= "school_bus"
    THEN LET morning_time == calculate_morning_commute_time(route.duration_minutes, None)
         IN  [morning_commute_minutes |-> morning_time,
              duration_minutes |-> morning_time,
              display |-> route.display]
             @@ route
    ELSE route

\* The loop body of get_transportation_for_school on one route.
WithMorningCommute(route) ==
    IF "duration_minutes" \in DOMAIN route /\ route.mode /= "school_bus"
    THEN LET morning_time == calculate_morning_commute_time(route.duration_minutes, None)
         IN  [morning_commute_minutes |-> morning_time,
              display |-> IF morning_time /= route.duration_minutes
                          THEN route.display \o " (morning: " \o ToString(morning_time)
                                             \o " min)"
                          ELSE route.display]
             @@ route
    ELSE route

get_transportation_for_school(school_lat, school_lon, from_address_lat, from_address_lon, include_school_bus, school_bus_info) ==
    LET routes == calculate_all_routes(from_address_lat, from_address_lon,
                                       school_lat, school_lon,
                                       include_school_bus, school_bus_info)
    IN  [i \in 1..Len(routes) |-> WithMorningCommute(routes[i])]

(***************************************************************************)
(* The route aggregation as a coroutine: its steps and the wall clock.     *)
(***************************************************************************)
\* Mutant: "departure_time = datetime.now()", the hour of the wall clock kept.
datetime_replace_hour_Kept(dt, hour) ==
    dt

\* datetime.replace(hour=hour, minute=0) on a time in whole hours.
datetime_replace_hour(dt, hour) ==
    (dt \div 24) * 24 + hour

\* datetime.hour
datetime_hour(dt) ==
    dt % 24

\* The loop body of get_transportation_for_school on one route, run when the
\* wall clock shows `clock`: calculate_morning_commute_time is called without
\* departure_time and takes datetime.now().replace(hour=8, minute=0).
WithMorningCommuteAt(route, clock) ==
    IF "duration_minutes" \in DOMAIN route /\ route.mode /= "school_bus"
    THEN LET departure_time == datetime_replace_hour(clock, 8)
             morning_time == calculate_morning_commute_time(
                                 route.duration_minutes, Some(datetime_hour(departure_time)))
         IN  [morning_commute_minutes |-> morning_time,
              display |-> IF morning_time /= route.duration_minutes
                          THEN route.display \o " (morning: " \o ToString(morning_time)
                                             \o " min)"
                          ELSE route.display]
             @@ route
    ELSE route

\* The `routes` list of calculate_all_routes after the walking and cycling
\* estimates (transportation_service.py:204-216).
RoutesAfterCycling(distance) ==
    LET walking == calculate_walking_time(distance)
        cycling == calculate_cycling_time(distance)
    IN  (IF WalkingShown(walking) THEN walking ELSE <<>>)
        \o (IF CyclingShown(cycling) THEN cycling ELSE <<>>)

\* ... after the awaited public transit estimate (219-223).
RoutesAfterTransit(routes, from_lat, from_lon, to_lat, to_lon) ==
    LET public_transit == calculate_public_transit_route(from_lat, from_lon, to_lat, to_lon)
    IN  routes \o (IF public_transit /= None THEN public_transit ELSE <<>>)

\* ... after the driving estimate and the school bus entry, sorted (226-248).
RoutesReturned(routes, distance, include_school_bus, school_bus_info) ==
    LET driving == calculate_driving_time(distance)
        all == routes
               \o (IF DrivingShown(driving) THEN driving ELSE <<>>)
               \o (IF include_school_bus /\ Truthy(school_bus_info)
                   THEN <<SchoolBusRoute(school_bus_info[1])>> ELSE <<>>)
        regular_routes == SelectSeq(all, LAMBDA r : r.mode /= "school_bus")
        school_bus_routes == SelectSeq(all, LAMBDA r : r.mode = "school_bus")
    IN  SortByDuration(regular_routes) \o school_bus_routes

(***************************************************************************)
(* geocoding.py, main.py and extended_routes.py: the endpoints.            *)
(***************************************************************************)
\* geocode_address(street, city): the coordinates of the first result; None
\* when the request has no result and when the request or the parsing of
\* its answer raises ("except Exception: ... return None").
geocode_address(address, geocoding) ==
    IF geocoding = "found" THEN Some(NominatimCoords[address]) ELSE None

\* "if i < len(addresses) - 1" of batch_geocode_with_delay, mutated: a sleep
\* after every request.
SleepsAfterRequest_Always(i, addresses) ==
    TRUE

\* "if i < len(addresses) - 1"; i counts from 0.
SleepsAfterRequest(i, addresses) ==
    i < Len(addresses) - 1

\* "results[key] = coords" on the dict `results`
DictSet(results, key, coords) ==
    (key :> coords) @@ results

\* geocode_city(city): as geocode_address.
geocode_city(address, geocoding) ==
    IF geocoding = "found" THEN Some(NominatimCoords[address]) ELSE None

\* The geocoding of both endpoints: "street, city" goes to geocode_address,
\* an address without a comma to geocode_city.
GeocodeRequestAddress(address, geocoding) ==
    IF address \in AddressesWithComma
    THEN geocode_address(address, geocoding)
    ELSE geocode_city(address, geocoding)

\* HTTPException(status_code=..., detail=...)
HTTPException(status_code, detail) ==
    [type |-> "HTTPException", status_code |-> status_code, detail |-> detail]

\* The error of a request whose query parameters fail their Query(ge=..., le=...)
\* constraints; the handler is not called.
RequestValidationError ==
    [type |-> "RequestValidationError", status_code |-> 422, detail |-> "radius_km"]

\* What a request does: the exception it ends with or the body it returns,
\* and the steps the handler took, in order.
Raised(exception, steps) ==
    [raised |-> Some(exception), body |-> None, steps |-> steps]

Returned(body, steps) ==
    [raised |-> None, body |-> Some(body), steps |-> steps]

\* The SchoolSearchParams of a request that gives only address and radius_km.
DefaultSearchParams ==
    [school_type |-> None, min_rating |-> 0, bilingual |-> FALSE,
     international |-> FALSE, limit |-> 100]

\* Mutant: the handler without "except Exception", a storage error is
\* raised as it is.
get_nearby_schools_NoWrap(db, address, radius_m, geocoding, storage) ==
    IF radius_m < 100 \/ radius_m > 50000
    THEN Raised(RequestValidationError, <<>>)
    ELSE LET coords == GeocodeRequestAddress(address, geocoding)
         IN  IF coords = None
             THEN Raised(HTTPException(404,
                             "Could not geocode address: '" \o address
                             \o "'. Please try a more specific address like 'Dam 1, Amsterdam'"),
                         <<"geocode">>)
             ELSE IF storage = "error"
             THEN Raised(StorageError, <<"geocode", "search_schools_by_proximity">>)
             ELSE Returned(search_schools_by_proximity(db, DefaultSearchParams,
                                                       coords[1][1], coords[1][2], radius_m),
                           <<"geocode", "search_schools_by_proximity">>)

\* Mutant: radius_km without its Query constraints.
get_nearby_schools_Unvalidated(db, address, radius_m, geocoding, storage) ==
    LET coords == GeocodeRequestAddress(address, geocoding)
    IN  IF coords = None
        THEN Raised(HTTPException(404,
                        "Could not geocode address: '" \o address
                        \o "'. Please try a more specific address like 'Dam 1, Amsterdam'"),
                    <<"geocode">>)
        ELSE IF storage = "error"
        THEN Raised(HTTPException(500, "Error searching nearby schools: "
                                       \o StorageError.message),
                    <<"geocode", "search_schools_by_proximity">>)
        ELSE Returned(search_schools_by_proximity(db, DefaultSearchParams,
                                                  coords[1][1], coords[1][2], radius_m),
                      <<"geocode", "search_schools_by_proximity">>)

\* get_nearby_schools (GET /schools/nearby) with address and radius_km given.
get_nearby_schools(db, address, radius_m, geocoding, storage) ==
    IF radius_m < 100 \/ radius_m > 50000
    THEN Raised(RequestValidationError, <<>>)
    ELSE LET coords == GeocodeRequestAddress(address, geocoding)
         IN  IF coords = None
             THEN Raised(HTTPException(404,
                             "Could not geocode address: '" \o address
                             \o "'. Please try a more specific address like 'Dam 1, Amsterdam'"),
                         <<"geocode">>)
             ELSE IF storage = "error"
             THEN \* "except Exception as e: raise HTTPException(500, ...)"
                  Raised(HTTPException(500, "Error searching nearby schools: "
                                            \o StorageError.message),
                         <<"geocode", "search_schools_by_proximity">>)
             ELSE Returned(search_schools_by_proximity(db, DefaultSearchParams,
                                                       coords[1][1], coords[1][2], radius_m),
                           <<"geocode", "search_schools_by_proximity">>)

\* get_school_by_id: the row with the id, or None.
get_school_by_id(db, school_id) ==
    IF school_id \in 1..Len(db) THEN Some(db[school_id]) ELSE None

\* TransportationRouteResponse(...) of a route.
TransportationRouteResponse(school_id, route, from_address) ==
    [id |-> 0,
     school_id |-> school_id,
     mode |-> route.mode,
     duration_minutes |-> Get(route, "duration_minutes"),
     distance_km |-> Get(route, "distance_km"),
     transit_details |-> Get(route, "details"),
     bus_route_name |-> IF "bus_route_name" \in DOMAIN route
                        THEN route.bus_route_name ELSE None,
     bus_pickup_time |-> IF "bus_pickup_time" \in DOMAIN route
                         THEN route.bus_pickup_time ELSE None,
     bus_pickup_location |-> IF "bus_pickup_location" \in DOMAIN route
                             THEN route.bus_pickup_location ELSE None,
     from_address |-> Some(from_address)]

\* get_school_transportation (GET /transportation/{school_id}).
get_school_transportation(db, school_id, from_address, geocoding, storage) ==
    IF storage = "error"
    THEN \* get_school_by_id raises; "except Exception as e: raise HTTPException(500, ...)"
         Raised(HTTPException(500, "Error calculating transportation: "
                                   \o StorageError.message),
                <<"get_school_by_id">>)
    ELSE LET school == get_school_by_id(db, school_id)
         IN  IF school = None
             THEN Raised(HTTPException(404, "School not found"), <<"get_school_by_id">>)
             ELSE IF school[1].latitude = None \/ school[1].longitude = None
             THEN Raised(HTTPException(400, "School location not available"),
                         <<"get_school_by_id">>)
             ELSE LET coords == GeocodeRequestAddress(from_address, geocoding)
                  IN  IF coords = None
                      THEN Raised(HTTPException(404, "Could not geocode address: '"
                                                     \o from_address \o "'"),
                                  <<"get_school_by_id", "geocode">>)
                      ELSE LET routes == get_transportation_for_school(
                                             school[1].latitude[1], school[1].longitude[1],
                                             coords[1][1], coords[1][2], FALSE, None)
                           IN  Returned([i \in 1..Len(routes) |->
                                            TransportationRouteResponse(school_id, routes[i],
                                                                        from_address)],
                                        <<"get_school_by_id", "geocode",
                                          "get_transportation_for_school">>)

(***************************************************************************)
(* extended_crud.py: shareable comparisons.                                *)
(***************************************************************************)
\* The row create_shareable_comparison adds; view_count has the column
\* default 0.
NewComparison(rows, clock) ==
    [id |-> Len(rows) + 1,
     share_id |-> ShareToken(Len(rows) + 1),
     view_count |-> 0,
     expires_at |-> Some(clock + ShareLifetime)]

\* db.query(ShareableComparison).filter(share_id == share_id).first(): the
\* object loaded into the Session, or None.
FirstComparison(rows, share_id) ==
    LET found == { i \in 1..Len(rows) : rows[i].share_id = share_id }
    IN  IF found = {} THEN None
        ELSE Some(rows[CHOOSE i \in found : \A j \in found : i <= j])

\* "comparison.expires_at and comparison.expires_at < datetime.utcnow()"
Expired(comparison, clock) ==
    comparison.expires_at /= None /\ comparison.expires_at[1] < clock

\* The UPDATE db.commit() flushes for a changed view_count:
\* "UPDATE shareable_comparisons SET view_count = <value> WHERE id = <id>",
\* the value being that of the Session's object.
UpdateViewCount(rows, id, view_count) ==
    [i \in 1..Len(rows) |->
        IF rows[i].id = id THEN [rows[i] EXCEPT !.view_count = view_count] ELSE rows[i]]

(***************************************************************************)
(* extended_crud.py: application statuses.                                 *)
(***************************************************************************)
\* db.query(ApplicationStatus).filter(and_(user_email == ..., school_id ==
\* ...)).first(): the object loaded into the Session, or None.
FirstApplication(rows, user_email, school_id) ==
    LET found == { i \in 1..Len(rows) :
                     rows[i].user_email = user_email /\ rows[i].school_id = school_id }
    IN  IF found = {} THEN None
        ELSE Some(rows[CHOOSE i \in found : \A j \in found : i <= j])

\* The row the "Create new" branch adds; created_at and updated_at have the
\* column default utcnow.
NewApplication(rows, status_data, clock) ==
    [id |-> Len(rows) + 1,
     school_id |-> status_data.school_id,
     user_email |-> status_data.user_email,
     status |-> status_data.status,
     applied_date |-> clock,
     waiting_list_position |-> status_data.waiting_list_position,
     notes |-> status_data.notes,
     updated_at |-> clock]

\* The value a column has after the UPDATE of a commit: the unit of work
\* writes the attributes whose value differs from the loaded one.
Written(loaded, assigned, stored) == IF assigned /= loaded THEN assigned ELSE stored

\* The UPDATE the "Update" branch flushes for the object it loaded:
\* "UPDATE application_statuses SET ... WHERE id = <id>".
UpdateApplication(rows, existing, status_data, clock) ==
    [i \in 1..Len(rows) |->
        IF rows[i].id = existing.id
        THEN [rows[i] EXCEPT
                !.status = Written(existing.status, status_data.status, @),
                !.waiting_list_position = Written(existing.waiting_list_position,
                                                  status_data.waiting_list_position, @),
                !.notes = Written(existing.notes, status_data.notes, @),
                !.updated_at = Written(existing.updated_at, clock, @)]
        ELSE rows[i]]

\* db.refresh(...): the row with the id as the table has it.
RefreshedApplication(rows, id) == rows[CHOOSE i \in 1..Len(rows) : rows[i].id = id]

(***************************************************************************)
(* Operations on the schools table and the nearby search.                  *)
(***************************************************************************)
\* One request is handled at a time: a nearby search is answered (its list
\* returned to the caller) before the next operation starts.
CreateSchool ==
    /\ nearby = None
    /\ response = None
    /\ Len(schools) < MaxSchools
    /\ \E c \in RowCoords, a \in RowAttributes :
          schools' = create_school(schools,
                        [school_type |-> a.school_type,
                         inspection_score |-> a.inspection_score,
                         is_bilingual |-> a.is_bilingual,
                         is_international |-> a.is_international,
                         latitude |-> c[1], longitude |-> c[2]])
    /\ UNCHANGED <<nearby, transport, estimate, geo, response, concurrentVars>>

SearchNearby ==
    /\ nearby = None
    /\ \E f \in FilterChoices, limit \in 1..MaxLimit, centre \in Addresses, radius \in Radii :
          LET params == [school_type |-> f.school_type, min_rating |-> f.min_rating,
                         bilingual |-> f.bilingual, international |-> f.international,
                         limit |-> limit]
          IN  nearby' = Some([params |-> params, latitude |-> centre[1],
                              longitude |-> centre[2], radius_m |-> radius,
                              result |-> search_schools_by_proximity(
                                             schools, params, centre[1], centre[2], radius)])
    /\ UNCHANGED <<schools, transport, estimate, geo, response, concurrentVars>>

\* get_nearby_schools returns the list.
ReturnNearby ==
    /\ nearby /= None
    /\ nearby' = None
    /\ UNCHANGED <<schools, transport, estimate, geo, response, concurrentVars>>

(***************************************************************************)
(* Route aggregation requests.                                             *)
(***************************************************************************)
CalculateAllRoutes ==
    /\ transport = None
    /\ \E from \in Addresses, to \in SchoolCoords, include \in BOOLEAN, info \in BusInfos :
          transport' = Some([fn |-> "calculate_all_routes",
                             from_lat |-> from[1], from_lon |-> from[2],
                             to_lat |-> to[1], to_lon |-> to[2],
                             include_school_bus |-> include, school_bus_info |-> info,
                             routes |-> calculate_all_routes(from[1], from[2], to[1], to[2],
                                                             include, info)])
    /\ UNCHANGED <<schools, nearby, estimate, geo, response, concurrentVars>>

GetTransportationForSchool ==
    /\ transport = None
    /\ \E from \in Addresses, to \in SchoolCoords, include \in BOOLEAN, info \in BusInfos :
          transport' = Some([fn |-> "get_transportation_for_school",
                             from_lat |-> from[1], from_lon |-> from[2],
                             to_lat |-> to[1], to_lon |-> to[2],
                             include_school_bus |-> include, school_bus_info |-> info,
                             routes |-> get_transportation_for_school(
                                            to[1], to[2], from[1], from[2], include, info)])
    /\ UNCHANGED <<schools, nearby, estimate, geo, response, concurrentVars>>

\* The list is returned to the caller.
ReturnTransport ==
    /\ transport /= None
    /\ transport' = None
    /\ UNCHANGED <<schools, nearby, estimate, geo, response, concurrentVars>>

(***************************************************************************)
(* Calls of the single estimators.                                         *)
(***************************************************************************)
CallWalking ==
    /\ estimate = None
    /\ \E d \in DistanceInputs :
          estimate' = Some([fn |-> "calculate_walking_time", distance_m |-> d,
                            value |-> calculate_walking_time(d)])
    /\ UNCHANGED <<schools, nearby, transport, geo, response, concurrentVars>>

CallCycling ==
    /\ estimate = None
    /\ \E d \in DistanceInputs :
          estimate' = Some([fn |-> "calculate_cycling_time", distance_m |-> d,
                            value |-> calculate_cycling_time(d)])
    /\ UNCHANGED <<schools, nearby, transport, geo, response, concurrentVars>>

CallDriving ==
    /\ estimate = None
    /\ \E d \in DistanceInputs :
          estimate' = Some([fn |-> "calculate_driving_time", distance_m |-> d,
                            value |-> calculate_driving_time(d)])
    /\ UNCHANGED <<schools, nearby, transport, geo, response, concurrentVars>>

CallEstimatePublicTransit ==
    /\ estimate = None
    /\ \E d \in DistanceInputs :
          estimate' = Some([fn |-> "_estimate_public_transit", distance_m |-> d,
                            value |-> _estimate_public_transit(d)])
    /\ UNCHANGED <<schools, nearby, transport, geo, response, concurrentVars>>

CallPublicTransitRoute ==
    /\ estimate = None
    /\ \E from \in Addresses, to \in SchoolCoords :
          estimate' = Some([fn |-> "calculate_public_transit_route",
                            distance_m |-> haversine_distance(from[1], from[2], to[1], to[2]),
                            value |-> calculate_public_transit_route(from[1], from[2],
                                                                     to[1], to[2])])
    /\ UNCHANGED <<schools, nearby, transport, geo, response, concurrentVars>>

\* A call of calculate_morning_commute_time: without a departure time, or
\* with a time of the given hour.
CallMorningCommute ==
    /\ estimate = None
    /\ \E base \in BaseMinutes, departure_time \in DepartureTimes :
          estimate' = Some([fn |-> "calculate_morning_commute_time",
                            base_duration_minutes |-> base,
                            departure_time |-> departure_time,
                            value |-> calculate_morning_commute_time(base, departure_time)])
    /\ UNCHANGED <<schools, nearby, transport, geo, response, concurrentVars>>

ReturnEstimate ==
    /\ estimate /= None
    /\ estimate' = None
    /\ UNCHANGED <<schools, nearby, transport, geo, response, concurrentVars>>

(***************************************************************************)
(* Calls of the distance.py functions.                                     *)
(***************************************************************************)
CallFormatDistance ==
    /\ geo = None
    /\ \E d \in FormatInputs :
          geo' = Some([fn |-> "format_distance", distance_dm |-> d,
                       value |-> format_distance(d)])
    /\ UNCHANGED <<schools, nearby, transport, estimate, response, concurrentVars>>

CallBoundingBox ==
    /\ geo = None
    /\ \E centre \in BoxCentres, radius \in BoxRadii :
          geo' = Some([fn |-> "calculate_bounding_box",
                       lat |-> centre[1], lon |-> centre[2], distance_m |-> radius,
                       value |-> calculate_bounding_box(centre[1], centre[2], radius)])
    /\ UNCHANGED <<schools, nearby, transport, estimate, response, concurrentVars>>

CallHaversine ==
    /\ geo = None
    /\ \E grid \in HaversineGrids : \E a \in grid, b \in grid :
          geo' = Some([fn |-> "haversine_distance",
                       lat1 |-> a[1], lon1 |-> a[2], lat2 |-> b[1], lon2 |-> b[2],
                       value |-> HaversineOutcome(a[1], a[2], b[1], b[2])])
    /\ UNCHANGED <<schools, nearby, transport, estimate, response, concurrentVars>>

ReturnGeo ==
    /\ geo /= None
    /\ geo' = None
    /\ UNCHANGED <<schools, nearby, transport, estimate, response, concurrentVars>>

(***************************************************************************)
(* Requests to the endpoints.                                              *)
(***************************************************************************)
GetNearbySchools ==
    /\ response = None
    /\ nearby = None
    /\ \E address \in RequestAddresses, radius \in RequestRadii,
          geocoding \in GeocodingOutcomes, storage \in StorageOutcomes :
          response' = Some([endpoint |-> "get_nearby_schools",
                            address |-> address, radius_m |-> radius,
                            geocoding |-> geocoding, storage |-> storage]
                           @@ get_nearby_schools(schools, address, radius, geocoding, storage))
    /\ UNCHANGED <<schools, nearby, transport, estimate, geo, concurrentVars>>

GetSchoolTransportation ==
    /\ response = None
    /\ nearby = None
    /\ \E school_id \in 1..(MaxSchools + 1), from_address \in RequestAddresses,
          geocoding \in GeocodingOutcomes, storage \in StorageOutcomes :
          response' = Some([endpoint |-> "get_school_transportation",
                            school_id |-> school_id, address |-> from_address,
                            geocoding |-> geocoding, storage |-> storage]
                           @@ get_school_transportation(schools, school_id, from_address,
                                                        geocoding, storage))
    /\ UNCHANGED <<schools, nearby, transport, estimate, geo, concurrentVars>>

\* The response is sent.
ReturnResponse ==
    /\ response /= None
    /\ response' = None
    /\ UNCHANGED <<schools, nearby, transport, estimate, geo, concurrentVars>>

\* search_schools_by_proximity called with a radius or a centre the endpoint
\* does not pass.
SearchUnvalidated ==
    /\ response = None
    /\ nearby = None
    /\ \E call \in UnvalidatedCalls :
          LET centre == call[1]
              radius == call[2]
          IN  nearby' = Some([params |-> DefaultSearchParams, latitude |-> centre[1],
                              longitude |-> centre[2], radius_m |-> radius,
                              result |-> search_schools_by_proximity(
                                             schools, DefaultSearchParams,
                                             centre[1], centre[2], radius)])
    /\ UNCHANGED <<schools, transport, estimate, geo, response, concurrentVars>>

(***************************************************************************)
(* Concurrent get_transportation_for_school coroutines and the wall clock. *)
(***************************************************************************)
\* The clock advances by an hour.
Tick ==
    /\ now < MaxClock
    /\ now' = now + 1
    /\ UNCHANGED <<requestVars, tasks, batch, comparisons, viewers, applications, updaters>>

\* A request starts get_transportation_for_school.
StartTask(t) ==
    /\ tasks[t] = None
    /\ \E args \in TaskArguments :
          tasks' = [tasks EXCEPT ![t] =
                       Some([args |-> args, pc |-> "distance", distance |-> None,
                             routes |-> <<>>, i |-> 0])]
    /\ UNCHANGED <<requestVars, now, batch, comparisons, viewers, applications, updaters>>

\* calculate_all_routes up to the await: the distance, walking and cycling.
TaskEstimates(t) ==
    /\ tasks[t] /= None /\ tasks[t][1].pc = "distance"
    /\ LET task == tasks[t][1]
           args == task.args
           distance == haversine_distance(args.from_lat, args.from_lon,
                                          args.school_lat, args.school_lon)
       IN  tasks' = [tasks EXCEPT ![t] =
                        Some([task EXCEPT !.pc = "transit", !.distance = Some(distance),
                                          !.routes = RoutesAfterCycling(distance)])]
    /\ UNCHANGED <<requestVars, now, batch, comparisons, viewers, applications, updaters>>

\* "await TransportationService.calculate_public_transit_route(...)"
TaskTransit(t) ==
    /\ tasks[t] /= None /\ tasks[t][1].pc = "transit"
    /\ LET task == tasks[t][1]
           args == task.args
       IN  tasks' = [tasks EXCEPT ![t] =
                        Some([task EXCEPT !.pc = "driving",
                                          !.routes = RoutesAfterTransit(
                                              task.routes, args.from_lat, args.from_lon,
                                              args.school_lat, args.school_lon)])]
    /\ UNCHANGED <<requestVars, now, batch, comparisons, viewers, applications, updaters>>

\* The rest of calculate_all_routes: driving, school bus, sort, return.
TaskSort(t) ==
    /\ tasks[t] /= None /\ tasks[t][1].pc = "driving"
    /\ LET task == tasks[t][1]
           args == task.args
       IN  tasks' = [tasks EXCEPT ![t] =
                        Some([task EXCEPT !.pc = "commute", !.i = 1,
                                          !.routes = RoutesReturned(
                                              task.routes, task.distance[1],
                                              args.include_school_bus,
                                              args.school_bus_info)])]
    /\ UNCHANGED <<requestVars, now, batch, comparisons, viewers, applications, updaters>>

\* One iteration of "for route in routes" of get_transportation_for_school,
\* reading the clock; after the last one the list is returned.
TaskCommute(t) ==
    /\ tasks[t] /= None /\ tasks[t][1].pc = "commute"
    /\ LET task == tasks[t][1]
       IN  tasks' = [tasks EXCEPT ![t] =
                        IF task.i <= Len(task.routes)
                        THEN Some([task EXCEPT
                                      !.i = task.i + 1,
                                      !.routes[task.i] =
                                          WithMorningCommuteAt(task.routes[task.i], now)])
                        ELSE Some([task EXCEPT !.pc = "done"])]
    /\ UNCHANGED <<requestVars, now, batch, comparisons, viewers, applications, updaters>>

\* The caller has taken the returned list.
TaskReturn(t) ==
    /\ tasks[t] /= None /\ tasks[t][1].pc = "done"
    /\ tasks' = [tasks EXCEPT ![t] = None]
    /\ UNCHANGED <<requestVars, now, batch, comparisons, viewers, applications, updaters>>

(***************************************************************************)
(* batch_geocode_with_delay, one step of its loop at a time.               *)
(***************************************************************************)
\* The call: "results = {}" and the loop entered, or left at once on an
\* empty list.
StartBatch ==
    /\ batch = None
    /\ \E addresses \in BatchLists, delay \in BatchDelays :
          batch' = Some([addresses |-> addresses, delay |-> delay, i |-> 0,
                         results |-> <<>>, events |-> <<>>,
                         pc |-> IF Len(addresses) = 0 THEN "return" ELSE "geocode"])
    /\ UNCHANGED <<requestVars, now, tasks, comparisons, viewers, applications, updaters>>

\* "coords = geocode_address(address, city)" and "if coords: results[key] = coords"
BatchGeocode ==
    /\ batch /= None /\ batch[1].pc = "geocode"
    /\ \E geocoding \in GeocodingOutcomes :
          LET call == batch[1]
              key == BatchKey(call.addresses[call.i + 1])
              coords == geocode_address(key, geocoding)
          IN  batch' = Some([call EXCEPT
                  !.results = IF coords /= None THEN DictSet(call.results, key, coords[1])
                                                ELSE call.results,
                  !.events = Append(call.events,
                                    [kind |-> "request", key |-> key, coords |-> coords]),
                  !.i = IF SleepsAfterRequest(call.i, call.addresses)
                        THEN call.i ELSE call.i + 1,
                  !.pc = IF SleepsAfterRequest(call.i, call.addresses) THEN "sleep"
                         ELSE IF call.i + 1 < Len(call.addresses) THEN "geocode"
                         ELSE "return"])
    /\ UNCHANGED <<requestVars, now, tasks, comparisons, viewers, applications, updaters>>

\* "time.sleep(delay)" and the next iteration.
BatchSleep ==
    /\ batch /= None /\ batch[1].pc = "sleep"
    /\ LET call == batch[1]
       IN  batch' = Some([call EXCEPT
               !.events = Append(call.events, [kind |-> "sleep", seconds |-> call.delay]),
               !.i = call.i + 1,
               !.pc = IF call.i + 1 < Len(call.addresses) THEN "geocode" ELSE "return"])
    /\ UNCHANGED <<requestVars, now, tasks, comparisons, viewers, applications, updaters>>

\* "return results"; the caller has taken the dict.
BatchReturn ==
    /\ batch /= None /\ batch[1].pc = "return"
    /\ batch' = None
    /\ UNCHANGED <<requestVars, now, tasks, comparisons, viewers, applications, updaters>>

(***************************************************************************)
(* Shareable comparisons: the rows and the GET /share/{share_id} requests, *)
(* each served by a worker thread with a Session of its own.               *)
(***************************************************************************)
\* POST /share/comparison
CreateComparison ==
    /\ Len(comparisons) < MaxComparisons
    /\ comparisons' = Append(comparisons, NewComparison(comparisons, now))
    /\ UNCHANGED <<requestVars, now, tasks, batch, viewers, applications, updaters>>

\* 31 days pass: the comparisons created before are expired.
JumpClock ==
    /\ now < ClockJump
    /\ now' = now + ClockJump
    /\ UNCHANGED <<requestVars, tasks, batch, comparisons, viewers, applications, updaters>>

\* get_shareable_comparison up to the increment: the SELECT and the two
\* "return None".
ViewerQuery(v) ==
    /\ viewers[v] = None
    /\ \E share_id \in RequestedShareIds :
          LET comparison == FirstComparison(comparisons, share_id)
          IN  viewers' = [viewers EXCEPT ![v] =
                  IF comparison = None \/ Expired(comparison[1], now)
                  THEN Some([share_id |-> share_id, pc |-> "done",
                             comparison |-> comparison, result |-> None])
                  ELSE Some([share_id |-> share_id, pc |-> "loaded",
                             comparison |-> comparison, result |-> None])]
    /\ UNCHANGED <<requestVars, now, tasks, batch, comparisons, applications, updaters>>

\* "comparison.view_count += 1; db.commit(); return comparison"
ViewerCommit(v) ==
    /\ viewers[v] /= None /\ viewers[v][1].pc = "loaded"
    /\ LET request == viewers[v][1]
           comparison == [request.comparison[1] EXCEPT !.view_count = @ + 1]
       IN  /\ comparisons' = UpdateViewCount(comparisons, comparison.id,
                                             comparison.view_count)
           /\ viewers' = [viewers EXCEPT ![v] =
                             Some([request EXCEPT !.pc = "done",
                                                  !.comparison = Some(comparison),
                                                  !.result = Some(comparison)])]
    /\ UNCHANGED <<requestVars, now, tasks, batch, applications, updaters>>

(***************************************************************************)
(* Application statuses: the rows and the POST /application-status         *)
(* requests, each served by a worker thread with a Session of its own.     *)
(***************************************************************************)
\* The requests that have run the SELECT and not yet committed.
LoadedUpdaters ==
    { u \in Updaters : updaters[u] /= None /\ updaters[u][1].pc = "loaded" }

\* create_or_update_application_status up to the branch: the SELECT.
UpdaterQuery(u) ==
    /\ updaters[u] = None
    /\ Len(applications) + Cardinality(LoadedUpdaters) < MaxApplications
    /\ \E status_data \in StatusRequests :
          updaters' = [updaters EXCEPT ![u] =
              Some([status_data |-> status_data, pc |-> "loaded",
                    existing |-> FirstApplication(applications, status_data.user_email,
                                                  status_data.school_id),
                    result |-> None])]
    /\ UNCHANGED <<requestVars, now, tasks, batch, comparisons, viewers, applications>>

\* The branch taken on what the SELECT gave: the assignments or db.add,
\* db.commit(), db.refresh() and the return.
UpdaterCommit(u) ==
    /\ u \in LoadedUpdaters
    /\ LET request == updaters[u][1]
           rows == IF request.existing /= None
                   THEN UpdateApplication(applications, request.existing[1],
                                          request.status_data, now)
                   ELSE Append(applications,
                               NewApplication(applications, request.status_data, now))
           id == IF request.existing /= None THEN request.existing[1].id
                 ELSE Len(applications) + 1
       IN  /\ applications' = rows
           /\ updaters' = [updaters EXCEPT ![u] =
                             Some([request EXCEPT !.pc = "done",
                                       !.result = Some(RefreshedApplication(rows, id))])]
    /\ UNCHANGED <<requestVars, now, tasks, batch, comparisons, viewers>>

\* The response is sent and the thread serves the next request.
UpdaterRespond(u) ==
    /\ updaters[u] /= None /\ updaters[u][1].pc = "done"
    /\ updaters' = [updaters EXCEPT ![u] = None]
    /\ UNCHANGED <<requestVars, now, tasks, batch, comparisons, viewers, applications>>

Init ==
    /\ schools = <<>>
    /\ nearby = None
    /\ transport = None
    /\ estimate = None
    /\ geo = None
    /\ response = None
    /\ now = 0
    /\ tasks = [t \in Tasks |-> None]
    /\ batch = None
    /\ comparisons = <<>>
    /\ viewers = [v \in Viewers |-> None]
    /\ applications = <<>>
    /\ updaters = [u \in Updaters |-> None]

NextSearch ==
    \/ CreateSchool
    \/ SearchNearby
    \/ ReturnNearby

SpecSearch == Init /\ [][NextSearch]_vars

NextRoutes ==
    \/ CalculateAllRoutes
    \/ GetTransportationForSchool
    \/ ReturnTransport

SpecRoutes == Init /\ [][NextRoutes]_vars

NextEstimate ==
    \/ CallWalking
    \/ CallCycling
    \/ CallDriving
    \/ CallEstimatePublicTransit
    \/ CallPublicTransitRoute
    \/ CallMorningCommute
    \/ ReturnEstimate

SpecEstimate == Init /\ [][NextEstimate]_vars

NextGeo ==
    \/ CallFormatDistance
    \/ CallBoundingBox
    \/ CallHaversine
    \/ ReturnGeo

SpecGeo == Init /\ [][NextGeo]_vars

NextEndpoints ==
    \/ CreateSchool
    \/ GetNearbySchools
    \/ GetSchoolTransportation
    \/ ReturnResponse
    \/ SearchUnvalidated
    \/ ReturnNearby

SpecEndpoints == Init /\ [][NextEndpoints]_vars

NextAggregation ==
    \/ Tick
    \/ \E t \in Tasks : StartTask(t)
    \/ \E t \in Tasks : TaskEstimates(t)
    \/ \E t \in Tasks : TaskTransit(t)
    \/ \E t \in Tasks : TaskSort(t)
    \/ \E t \in Tasks : TaskCommute(t)
    \/ \E t \in Tasks : TaskReturn(t)

SpecAggregation == Init /\ [][NextAggregation]_vars

NextBatch ==
    \/ StartBatch
    \/ BatchGeocode
    \/ BatchSleep
    \/ BatchReturn

SpecBatch == Init /\ [][NextBatch]_vars

NextShare ==
    \/ CreateComparison
    \/ JumpClock
    \/ \E v \in Viewers : ViewerQuery(v)
    \/ \E v \in Viewers : ViewerCommit(v)

SpecShare == Init /\ [][NextShare]_vars

NextApplications ==
    \/ JumpClock
    \/ \E u \in Updaters : UpdaterQuery(u)
    \/ \E u \in Updaters : UpdaterCommit(u)
    \/ \E u \in Updaters : UpdaterRespond(u)

SpecApplications == Init /\ [][NextApplications]_vars

Next ==
    \/ NextSearch
    \/ NextRoutes
    \/ NextEstimate
    \/ NextGeo
    \/ NextEndpoints
    \/ NextAggregation
    \/ NextBatch
    \/ NextShare
    \/ NextApplications

Spec == Init /\ [][Next]_vars

(***************************************************************************)
(* Claims on the nearby search (under SpecSearch).                         *)
(***************************************************************************)
\* The call being answered and what the search computes from the table,
\* which no operation changes before the answer is returned.
NearbyCall == nearby[1]

NearbyCandidates ==
    SchoolsWithDistance(
        QueryAll(schools, NearbyCall.params, NearbyCall.latitude, NearbyCall.longitude,
                 NearbyCall.radius_m),
        NearbyCall.latitude, NearbyCall.longitude, NearbyCall.radius_m)

NearbyResultIds == { NearbyCall.result[i].id : i \in 1..Len(NearbyCall.result) }

ExactDistance(entry) ==
    haversine_distance(NearbyCall.latitude, NearbyCall.longitude,
                       entry.latitude[1], entry.longitude[1])

\* C1: every result of the proximity search has an exact great-circle
\* distance to the centre that is <= radius_km.
C1_ResultsWithinRadius ==
    nearby /= None =>
        \A i \in 1..Len(NearbyCall.result) :
            ExactDistance(NearbyCall.result[i]) <= NearbyCall.radius_m

\* C1 witness: a row passed the attribute and bounding-box filters, lies
\* beyond the radius and is not in the non-empty result.
C1_Witness ==
    /\ nearby /= None
    /\ NearbyCall.result /= <<>>
    /\ \E i \in 1..Len(schools) :
          /\ MatchesFilters(schools[i], NearbyCall.params)
          /\ InBoundingBox(schools[i],
                calculate_bounding_box(NearbyCall.latitude, NearbyCall.longitude,
                                       NearbyCall.radius_m))
          /\ ExactDistance(schools[i]) > NearbyCall.radius_m
          /\ schools[i].id \notin NearbyResultIds

\* C2: the returned list is sorted ascending by distance_km: adjacent
\* results r[i], r[i+1] have r[i].distance_km <= r[i+1].distance_km.
C2_ResultSorted ==
    nearby /= None =>
        \A i \in 1..(Len(NearbyCall.result) - 1) :
            NearbyCall.result[i].distance_km <= NearbyCall.result[i + 1].distance_km

\* C2 witness: two results at different distances, the nearer one from the
\* later row of the table.
C2_Witness ==
    /\ nearby /= None
    /\ Len(NearbyCall.result) >= 2
    /\ NearbyCall.result[1].distance_km < NearbyCall.result[2].distance_km
    /\ NearbyCall.result[1].id > NearbyCall.result[2].id

\* C3: the number of results never exceeds params.limit.
C3_AtMostLimit ==
    nearby /= None => Len(NearbyCall.result) <= NearbyCall.params.limit

\* C3 witness: more rows lie within the radius than the limit allows, and
\* exactly limit results are returned.
C3_Witness ==
    /\ nearby /= None
    /\ Len(NearbyCandidates) > NearbyCall.params.limit
    /\ Len(NearbyCall.result) = NearbyCall.params.limit

\* The number of results of the same search with another radius.
CountAtRadius(radius_m) ==
    Len(search_schools_by_proximity(schools, NearbyCall.params, NearbyCall.latitude,
                                    NearbyCall.longitude, radius_m))

\* C4: for a fixed table, centre, filters and limit and radii r1 <= r2, the
\* search with r1 returns no more results than the search with r2.
C4_RadiusMonotone ==
    nearby /= None =>
        \A r \in Radii :
            /\ r <= NearbyCall.radius_m => CountAtRadius(r) <= Len(NearbyCall.result)
            /\ r >= NearbyCall.radius_m => CountAtRadius(r) >= Len(NearbyCall.result)

\* C4 witness: a smaller radius returns fewer results, but not none.
C4_Witness ==
    /\ nearby /= None
    /\ \E r \in Radii :
          /\ r < NearbyCall.radius_m
          /\ CountAtRadius(r) >= 1
          /\ CountAtRadius(r) < Len(NearbyCall.result)

\* C5: truncation follows sorting: every returned result is at most as far
\* (distance_km) as every candidate that passed the attribute, bounding-box
\* and exact-radius filters but was not returned.
C5_NearestReturned ==
    nearby /= None =>
        \A i \in 1..Len(NearbyCall.result), j \in 1..Len(NearbyCandidates) :
            NearbyCandidates[j].id \notin NearbyResultIds =>
                NearbyCall.result[i].distance_km <= NearbyCandidates[j].distance_km

\* C5 witness: a candidate from an earlier row was cut off in favour of a
\* strictly nearer one from a later row.
C5_Witness ==
    /\ nearby /= None
    /\ \E i \in 1..Len(NearbyCall.result), j \in 1..Len(NearbyCandidates) :
          /\ NearbyCandidates[j].id \notin NearbyResultIds
          /\ NearbyCandidates[j].id < NearbyCall.result[i].id
          /\ NearbyCall.result[i].distance_km < NearbyCandidates[j].distance_km

(***************************************************************************)
(* Claims on route aggregation (under SpecRoutes).                         *)
(***************************************************************************)
TransportCall == transport[1]

Routes == TransportCall.routes

\* The origin/destination distance of the call.
RouteDistance ==
    haversine_distance(TransportCall.from_lat, TransportCall.from_lon,
                       TransportCall.to_lat, TransportCall.to_lon)

\* The number of entries of the returned list with the given mode.
ModeCount(mode) ==
    Cardinality({ i \in 1..Len(Routes) : Routes[i].mode = mode })

\* C6: in every returned RouteList the entries other than school_bus are in
\* ascending order of duration_minutes, and a school_bus entry comes after
\* every other entry (it is the last element).
C6_RouteOrder ==
    transport /= None =>
        /\ \A i, j \in 1..Len(Routes) :
              (i < j /\ Routes[i].mode /= "school_bus" /\ Routes[j].mode /= "school_bus")
                  => Routes[i].duration_minutes <= Routes[j].duration_minutes
        /\ \A i \in 1..Len(Routes) :
              Routes[i].mode = "school_bus" => i = Len(Routes)

\* C6 witness: walking, cycling, public transit, driving and the school bus
\* are all returned, driving (appended fourth) first and the school bus last.
C6_Witness ==
    /\ transport /= None
    /\ Len(Routes) = 5
    /\ Routes[1].mode = "driving"
    /\ Routes[4].mode = "walking"
    /\ Routes[1].duration_minutes < Routes[4].duration_minutes
    /\ Routes[5].mode = "school_bus"

EstimateCall == estimate[1]

SpeedEstimators ==
    {"calculate_walking_time", "calculate_cycling_time", "calculate_driving_time"}

InBand(value, transit_type, transfers, wait_time) ==
    /\ value /= None
    /\ value[1].transit_type = transit_type
    /\ value[1].details.transfers = transfers
    /\ value[1].details.wait_time_minutes = wait_time

WholeMinutes(distance_m, speed_kmh) ==
    CHOOSE m \in 0..(distance_m \div 10 + 1) :
        /\ m * speed_kmh * 1000 <= distance_m * 60
        /\ (m + 1) * speed_kmh * 1000 > distance_m * 60

\* round(num / den) for num >= 0, den > 0: the nearest integer, a tie going
\* to the even neighbour.
RoundNearest(num, den) ==
    LET q == num \div den
        r == num % den
    IN  IF 2 * r < den THEN q
        ELSE IF 2 * r > den THEN q + 1
        ELSE IF q % 2 = 0 THEN q ELSE q + 1

\* The speed and the wait of the band of a distance >= 2 km.
BandSpeed(distance_m) ==
    IF distance_m < 5000 THEN 20 ELSE IF distance_m < 15000 THEN 25 ELSE 40

BandWait(distance_m) ==
    IF distance_m < 5000 THEN 5 ELSE IF distance_m < 15000 THEN 8 ELSE 10

TransitCall ==
    estimate /= None /\ EstimateCall.fn = "_estimate_public_transit"
                     /\ EstimateCall.distance_m >= 2000

\* C11 as stated: for every distance >= 2 km duration_minutes equals
\* round(distance_km / band speed) + band wait, the quotient read either as
\* written (hours) or as minutes (* 60).
C11_Original ==
    TransitCall =>
        LET d == EstimateCall.distance_m
            duration == EstimateCall.value[1].duration_minutes
        IN  \/ duration = RoundNearest(d, BandSpeed(d) * 1000) + BandWait(d)
            \/ duration = RoundNearest(d * 60, BandSpeed(d) * 1000) + BandWait(d)

\* C11 amended: for every distance >= 2 km duration_minutes equals the whole
\* minutes of travel at the band speed (distance_km / band speed * 60,
\* truncated, not rounded) plus the band wait.
C11_TransitDurationTruncated ==
    TransitCall =>
        LET d == EstimateCall.distance_m
        IN  EstimateCall.value[1].duration_minutes
                = WholeMinutes(d, BandSpeed(d)) + BandWait(d)

\* C11 witness: at 20 km (30 minutes at 40 km/h) the estimate is 30 + 10
\* minutes, the wait being that of the train band.
C11_Witness ==
    /\ TransitCall
    /\ EstimateCall.distance_m = 20000
    /\ EstimateCall.value[1].duration_minutes = 40
    /\ EstimateCall.value[1].details.wait_time_minutes = 10

\* The speed of the walking, cycling and driving estimators.
EstimatorSpeed(fn) ==
    CASE fn = "calculate_walking_time" -> 5
      [] fn = "calculate_cycling_time" -> 15
      [] fn = "calculate_driving_time" -> 30

SpeedCall ==
    estimate /= None /\ EstimateCall.fn \in SpeedEstimators /\ EstimateCall.distance_m > 0

\* The distances (whole metres up to 40 km) and speeds at which the rounding
\* error of the double-precision division makes int((distance_km / speed) * 60)
\* one less than the exact quotient, which is a whole number there.
RoundingErrorCases == { <<10250, 5>>, <<20500, 5>>, <<30750, 15>> }

\* C12 as stated: for walking (5 km/h), cycling (15 km/h) and driving
\* (30 km/h) and every positive distance, duration_minutes is
\* distance_km / speed_kmh * 60 rounded to the nearest minute.
C12_Original ==
    SpeedCall =>
        EstimateCall.value[1].duration_minutes
            = RoundNearest(EstimateCall.distance_m * 60,
                           EstimatorSpeed(EstimateCall.fn) * 1000)

\* C12 amended: for walking, cycling and driving and every positive distance,
\* duration_minutes is distance_km / speed_kmh * 60 truncated to whole
\* minutes (never rounded up); at 10.25 and 20.5 km walking the
\* double-precision result is one minute below the exact whole quotient.
C12_DurationTruncated ==
    SpeedCall =>
        LET d == EstimateCall.distance_m
            speed == EstimatorSpeed(EstimateCall.fn)
            duration == EstimateCall.value[1].duration_minutes
        IN  IF <<d, speed>> \in RoundingErrorCases
            THEN duration = WholeMinutes(d, speed) - 1
            ELSE duration = WholeMinutes(d, speed)

\* C12 witness: driving 750 m takes 1.5 minutes and the estimate is 1 minute.
C12_Witness ==
    /\ SpeedCall
    /\ EstimateCall.fn = "calculate_driving_time"
    /\ EstimateCall.distance_m = 750
    /\ EstimateCall.value[1].duration_minutes = 1

(***************************************************************************)
(* Claims on the rush-hour adjustment (under SpecEstimate).                *)
(***************************************************************************)
CommuteCall ==
    estimate /= None /\ EstimateCall.fn = "calculate_morning_commute_time"

\* The hour the adjustment is made for, and the multiplier (in hundredths)
\* the claim gives for it.
CommuteHour ==
    IF EstimateCall.departure_time = None THEN 8 ELSE EstimateCall.departure_time[1]

CommuteMultiplier ==
    IF CommuteHour \in 7..9 THEN 125
    ELSE IF CommuteHour \in {6, 10} THEN 115
    ELSE 100

\* C13 as stated: the adjustment returns round(base_minutes * m), m = 1.25
\* for the hours 7..9, 1.15 for the hours 6 and 10, 1.0 for every other hour;
\* without a departure time the hour is 8.
C13_Original ==
    CommuteCall =>
        EstimateCall.value
            = RoundNearest(EstimateCall.base_duration_minutes * CommuteMultiplier, 100)

\* C13 amended: the adjustment returns base_minutes * m truncated to whole
\* minutes (not rounded), with the same multipliers and default hour; where
\* base_minutes * 1.15 is a whole number the double-precision product may
\* fall just below it and the result be one minute less.
C13_MorningCommuteTruncated ==
    CommuteCall =>
        LET product == EstimateCall.base_duration_minutes * CommuteMultiplier
            value == EstimateCall.value
        IN  \/ value * 100 <= product /\ product < (value + 1) * 100
            \/ /\ CommuteMultiplier = 115
               /\ product = (value + 1) * 100

\* C13 witness: without a departure time 30 minutes become 37 (37.5
\* truncated, the multiplier of the hour 8).
C13_Witness ==
    /\ CommuteCall
    /\ EstimateCall.departure_time = None
    /\ EstimateCall.base_duration_minutes = 30
    /\ EstimateCall.value = 37

(***************************************************************************)
(* Claims on the morning commute step and the school bus entry (under      *)
(* SpecRoutes).                                                            *)
(***************************************************************************)
\* The list route aggregation builds for the arguments of the call, before
\* the morning commute step.
AggregatedRoutes ==
    calculate_all_routes(TransportCall.from_lat, TransportCall.from_lon,
                         TransportCall.to_lat, TransportCall.to_lon,
                         TransportCall.include_school_bus, TransportCall.school_bus_info)

ForSchoolCall ==
    transport /= None /\ TransportCall.fn = "get_transportation_for_school"

\* C14: in the list get_transportation_for_school returns, every entry other
\* than school_bus carries morning_commute_minutes, the rush-hour adjustment
\* (at the default hour) of its own duration_minutes; no school_bus entry
\* carries it; the modes, their order and the duration_minutes are those of
\* the aggregated list.
C14_MorningCommuteAttached ==
    ForSchoolCall =>
        /\ Len(Routes) = Len(AggregatedRoutes)
        /\ \A i \in 1..Len(Routes) :
              /\ Routes[i].mode = AggregatedRoutes[i].mode
              /\ IF Routes[i].mode = "school_bus"
                 THEN /\ "morning_commute_minutes" \notin DOMAIN Routes[i]
                      /\ "duration_minutes" \notin DOMAIN Routes[i]
                 ELSE /\ "morning_commute_minutes" \in DOMAIN Routes[i]
                      /\ Routes[i].duration_minutes = AggregatedRoutes[i].duration_minutes
                      /\ Routes[i].morning_commute_minutes
                            = calculate_morning_commute_time(Routes[i].duration_minutes, None)
                      /\ Routes[i].morning_commute_minutes * 100
                            <= Routes[i].duration_minutes * 125
                      /\ Routes[i].morning_commute_minutes >= Routes[i].duration_minutes

\* C14 witness: a returned list of three adjusted entries, the adjustment of
\* one of them above its duration, followed by a school_bus entry.
C14_Witness ==
    /\ ForSchoolCall
    /\ Len(Routes) = 4
    /\ Routes[4].mode = "school_bus"
    /\ \E i \in 1..3 : Routes[i].morning_commute_minutes > Routes[i].duration_minutes

\* The value of a key of school_bus_info as the school_bus entry is to carry
\* it: the value itself, or None for a key the dict does not have.
BusInfoValue(key) ==
    IF key \in DOMAIN TransportCall.school_bus_info[1]
    THEN Some(TransportCall.school_bus_info[1][key])
    ELSE None

\* The school_bus entries of the returned list.
SchoolBusEntries ==
    { i \in 1..Len(Routes) : Routes[i].mode = "school_bus" }

\* C15 as stated: a school_bus entry is in the list if and only if
\* include_school_bus is true and school_bus_info is present (not None).
C15_Original ==
    transport /= None =>
        (SchoolBusEntries /= {}
            <=> (TransportCall.include_school_bus /\ TransportCall.school_bus_info /= None))

\* C15 amended: a school_bus entry is in the list if and only if
\* include_school_bus is true and school_bus_info is present and not empty;
\* it then is the only one, at every distance, and carries the route name,
\* pickup time and pickup location of school_bus_info unchanged.
C15_SchoolBusEntry ==
    transport /= None =>
        /\ SchoolBusEntries /= {}
              <=> /\ TransportCall.include_school_bus
                  /\ TransportCall.school_bus_info /= None
                  /\ DOMAIN TransportCall.school_bus_info[1] /= {}
        /\ Cardinality(SchoolBusEntries) <= 1
        /\ \A i \in SchoolBusEntries :
              /\ Routes[i].bus_route_name = BusInfoValue("route_name")
              /\ Routes[i].bus_pickup_time = BusInfoValue("pickup_time")
              /\ Routes[i].bus_pickup_location = BusInfoValue("pickup_location")

\* C15 witness: 20 km from the origin, where walking and cycling are dropped
\* by their thresholds, the list has the school_bus entry with the three
\* values of school_bus_info.
C15_Witness ==
    /\ transport /= None
    /\ RouteDistance >= 20000
    /\ ModeCount("walking") = 0
    /\ ModeCount("cycling") = 0
    /\ \E i \in SchoolBusEntries :
          /\ Routes[i].bus_route_name = Some("Route B")
          /\ Routes[i].bus_pickup_time = Some("8:15 AM")
          /\ Routes[i].bus_pickup_location = Some("Central Station")

(***************************************************************************)
(* Claims on the distance.py functions (under SpecGeo).                    *)
(***************************************************************************)
GeoCall == geo[1]

FormatCall ==
    geo /= None /\ GeoCall.fn = "format_distance"

\* "<tenths / 10 with one decimal> km"
OneDecimalKm(tenths) ==
    ToString(tenths \div 10) \o "." \o ToString(tenths % 10) \o " km"

\* C16 as stated: format_distance renders round(km * 1000) and " m" below
\* 1 km (the nearest whole metre count), and the value with one decimal place
\* and " km" from 1 km on.
C16_Original ==
    FormatCall =>
        LET d == GeoCall.distance_dm
        IN  IF d < 10000
            THEN GeoCall.value = ToString(RoundNearest(d, 10)) \o " m"
            ELSE \E tenths \in 10..(d \div 1000 + 1) :
                    /\ GeoCall.value = OneDecimalKm(tenths)
                    /\ tenths * 1000 - 500 <= d
                    /\ d <= tenths * 1000 + 500

\* C16 amended: format_distance renders the whole metres of the distance
\* (km * 1000 truncated, not rounded) and " m" below 1 km, and the value with
\* one decimal place (the nearest tenth of a km) and " km" from 1 km on.
C16_FormatTruncatesMetres ==
    FormatCall =>
        LET d == GeoCall.distance_dm
        IN  IF d < 10000
            THEN \E metres \in 0..999 :
                    /\ GeoCall.value = ToString(metres) \o " m"
                    /\ metres * 10 <= d
                    /\ d < (metres + 1) * 10
            ELSE \E tenths \in 10..(d \div 1000 + 1) :
                    /\ GeoCall.value = OneDecimalKm(tenths)
                    /\ tenths * 1000 - 500 <= d
                    /\ d <= tenths * 1000 + 500

\* C16 witness: 999.6 m is rendered "999 m".
C16_Witness ==
    /\ FormatCall
    /\ GeoCall.distance_dm = 9996
    /\ GeoCall.value = "999 m"

(***************************************************************************)
(* Claims on the distance fields of the search results (under SpecSearch). *)
(***************************************************************************)
\* C17 as stated: for every result, distance_formatted equals
\* format_distance applied to the result's distance_km field.
C17_Original ==
    nearby /= None =>
        \A i \in 1..Len(NearbyCall.result) :
            NearbyCall.result[i].distance_formatted
                = format_distance(NearbyCall.result[i].distance_km * 100)

\* C17 amended: for every result, distance_formatted renders the computed
\* great-circle distance itself (its whole metres below 1 km, its nearest
\* tenth of a km from 1 km on), and distance_km is that distance rounded to
\* 10 m; the two fields agree to within 5 m.
C17_FormattedFromComputedDistance ==
    nearby /= None =>
        \A i \in 1..Len(NearbyCall.result) :
            LET entry == NearbyCall.result[i]
                metres == ExactDistance(entry)
            IN  /\ IF metres < 1000
                   THEN entry.distance_formatted = ToString(metres) \o " m"
                   ELSE \E tenths \in 10..(metres \div 100 + 1) :
                           /\ entry.distance_formatted = OneDecimalKm(tenths)
                           /\ tenths * 100 - 50 <= metres
                           /\ metres < tenths * 100 + 50
                /\ entry.distance_km * 10 - 5 <= metres
                /\ metres < entry.distance_km * 10 + 5

\* C17 witness: a school 455.9 m from the centre is returned with
\* distance_km 0.46 and distance_formatted "455 m".
C17_Witness ==
    /\ nearby /= None
    /\ \E i \in 1..Len(NearbyCall.result) :
          /\ NearbyCall.result[i].distance_km = 46
          /\ NearbyCall.result[i].distance_formatted = "455 m"

(***************************************************************************)
(* Claims on validation and on the errors of the collaborators (under      *)
(* SpecEndpoints).                                                         *)
(***************************************************************************)
Request == response[1]

NearbyRequest ==
    response /= None /\ Request.endpoint = "get_nearby_schools"

\* The centre of the call is a coordinate: latitude in [-90, 90], longitude
\* in [-180, 180].
ValidCentre ==
    /\ 0 - 900000 <= NearbyCall.latitude /\ NearbyCall.latitude <= 900000
    /\ 0 - 1800000 <= NearbyCall.longitude /\ NearbyCall.longitude <= 1800000

GeocodingError ==
    [type |-> "ConnectionError", message |-> "connection refused"]

\* The request made its geocoding request, which raised.
GeocodingFailed ==
    /\ response /= None
    /\ Request.geocoding = "request_error"
    /\ \E i \in 1..Len(Request.steps) : Request.steps[i] = "geocode"

\* The request made a query on the storage, which raised.
StorageFailed ==
    /\ response /= None
    /\ Request.storage = "error"
    /\ \E i \in 1..Len(Request.steps) :
          Request.steps[i] \in {"search_schools_by_proximity", "get_school_by_id"}

\* C19 as stated: an error raised by the geocoding request or by the storage
\* during a nearby search or a transportation request reaches the caller
\* unchanged.
C19_Original ==
    /\ GeocodingFailed => Request.raised = Some(GeocodingError)
    /\ (StorageFailed /\ ~GeocodingFailed) => Request.raised = Some(StorageError)

\* C19 amended: a failing geocoding request is answered like an address
\* without a geocoding result, with the HTTPException 404 "Could not geocode
\* address"; a failing storage query is answered with an HTTPException 500
\* whose detail is the handler's text followed by the message of the error.
C19_CollaboratorErrorsConverted ==
    /\ GeocodingFailed =>
          /\ Request.raised /= None
          /\ Request.raised[1].type = "HTTPException"
          /\ Request.raised[1].status_code = 404
          /\ Request.raised
                = IF Request.endpoint = "get_nearby_schools"
                  THEN get_nearby_schools(schools, Request.address, Request.radius_m,
                                          "not_found", Request.storage).raised
                  ELSE get_school_transportation(schools, Request.school_id, Request.address,
                                                 "not_found", Request.storage).raised
    /\ StorageFailed =>
          /\ Request.raised /= None
          /\ Request.raised[1].type = "HTTPException"
          /\ Request.raised[1].status_code = 500
          /\ Request.raised[1].detail
                = (IF Request.endpoint = "get_nearby_schools"
                   THEN "Error searching nearby schools: "
                   ELSE "Error calculating transportation: ") \o StorageError.message

\* C19 witness: a nearby request whose geocoding request raised is answered
\* with the HTTPException 404.
C19_Witness ==
    /\ NearbyRequest
    /\ GeocodingFailed
    /\ Request.raised /= None
    /\ Request.raised[1].status_code = 404

(***************************************************************************)
(* Claims on the bounding box (under SpecGeo).                             *)
(***************************************************************************)
BoxCall ==
    geo /= None /\ GeoCall.fn = "calculate_bounding_box"

\* The candidates at the latitude of the centre of the call: the points of
\* its parallel next to the edge of each radius and of each box, on both
\* sides of the centre.
ParallelCandidates ==
    { <<key[3], key[4]>> : key \in
        { k \in DOMAIN HaversineMetres :
            k[1] = GeoCall.lat /\ k[2] = GeoCall.lon /\ k[3] = GeoCall.lat } }

CandidateDistance(p) ==
    haversine_distance(GeoCall.lat, GeoCall.lon, p[1], p[2])

CandidateInBox(p) ==
    InBoundingBox([latitude |-> Some(p[1]), longitude |-> Some(p[2])], GeoCall.value)

HaversineCall ==
    geo /= None /\ GeoCall.fn = "haversine_distance"

\* The call with the two points exchanged.
ReverseOutcome ==
    HaversineOutcome(GeoCall.lat2, GeoCall.lon2, GeoCall.lat1, GeoCall.lon1)

C22_Original ==
    HaversineCall =>
        /\ GeoCall.value.raised = None
        /\ GeoCall.value.value /= None
        /\ GeoCall.value.value[1] >= 0
        /\ (GeoCall.lat1 = GeoCall.lat2 /\ GeoCall.lon1 = GeoCall.lon2
                => GeoCall.value.value = Some(0))

\* C22, the part the code satisfies: a call that returns gives a non-negative
\* distance, 0 for a point and itself, and a call on a point and itself
\* never raises.
C22_ReturnedDistance ==
    HaversineCall =>
        /\ GeoCall.value.raised = None => GeoCall.value.value[1] >= 0
        /\ (GeoCall.lat1 = GeoCall.lat2 /\ GeoCall.lon1 = GeoCall.lon2
                => GeoCall.value = [raised |-> None, value |-> Some(0)])

\* C22 failing call: haversine_distance(51.0579, -32.3125, -51.0579, 147.6875),
\* a point and its antipode, raises ValueError.
C22_Witness ==
    /\ HaversineCall
    /\ GeoCall.lat1 = 510579 /\ GeoCall.lon1 = 0 - 323125
    /\ GeoCall.lat2 = 0 - 510579 /\ GeoCall.lon2 = 1476875
    /\ GeoCall.value.raised = Some("ValueError")

(***************************************************************************)
(* Claims on concurrent route aggregation (under SpecAggregation).         *)
(***************************************************************************)
\* The coroutines that have returned.
DoneTasks ==
    { t \in Tasks : tasks[t] /= None /\ tasks[t][1].pc = "done" }

\* What get_transportation_for_school returns on the arguments of task t
\* when it runs alone.
AloneResult(t) ==
    LET args == tasks[t][1].args
    IN  get_transportation_for_school(args.school_lat, args.school_lon,
                                      args.from_lat, args.from_lon,
                                      args.include_school_bus, args.school_bus_info)

\* C23: in every interleaving of concurrent get_transportation_for_school
\* calls each call returns the list it returns when run alone, and two calls
\* with the same arguments return equal lists whatever the wall clock shows
\* while they run.
C23_AggregationPure ==
    /\ \A t \in DoneTasks : tasks[t][1].routes = AloneResult(t)
    /\ \A t1, t2 \in DoneTasks :
          tasks[t1][1].args = tasks[t2][1].args
              => tasks[t1][1].routes = tasks[t2][1].routes

\* C23 witness: two concurrent calls over 20 km with a school bus have both
\* returned, the clock has advanced past the rush hour (hour 10 or later),
\* and the rush-hour times are those of hour 8 (driving 40 -> 50 minutes).
C23_Witness ==
    /\ DoneTasks = Tasks
    /\ \A t \in Tasks : tasks[t][1].args.school_lat = 525475
    /\ now >= 10
    /\ \E k \in 1..Len(tasks[1][1].routes) :
          /\ tasks[1][1].routes[k].mode = "driving"
          /\ tasks[1][1].routes[k].morning_commute_minutes = 50

(***************************************************************************)
(* Claims on batch_geocode_with_delay (under SpecBatch).                   *)
(***************************************************************************)
BatchCall == batch[1]

BatchDone ==
    batch /= None /\ BatchCall.pc = "return"

\* The positions of the log that hold an event of the kind.
EventsOfKind(kind) ==
    { k \in 1..Len(BatchCall.events) : BatchCall.events[k].kind = kind }

\* C24: batch_geocode_with_delay issues the requests in the order of the
\* list, with one sleep of `delay` seconds between every two consecutive
\* requests; when it returns it has made one request per address and one
\* sleep fewer (none on an empty list), the last event is a request, and the
\* keys of the returned dict are those of the addresses a request succeeded
\* for.
C24_DelayBetweenRequests ==
    batch /= None =>
        /\ \A k \in 1..Len(BatchCall.events) :
              IF k % 2 = 1
              THEN /\ BatchCall.events[k].kind = "request"
                   /\ BatchCall.events[k].key = BatchKey(BatchCall.addresses[(k + 1) \div 2])
              ELSE /\ BatchCall.events[k].kind = "sleep"
                   /\ BatchCall.events[k].seconds = BatchCall.delay
        /\ BatchDone =>
              /\ Cardinality(EventsOfKind("request")) = Len(BatchCall.addresses)
              /\ Cardinality(EventsOfKind("sleep")) =
                     IF Len(BatchCall.addresses) = 0 THEN 0 ELSE Len(BatchCall.addresses) - 1
              /\ (BatchCall.events /= <<>> =>
                      BatchCall.events[Len(BatchCall.events)].kind = "request")
              /\ DOMAIN BatchCall.results =
                     { BatchCall.events[k].key :
                         k \in { r \in EventsOfKind("request") :
                                     BatchCall.events[r].coords /= None } }

\* C24 witness: a call on three addresses has returned after three requests
\* with two sleeps between them; the second request failed, and the dict has
\* the keys of the other two.
C24_Witness ==
    /\ BatchDone
    /\ Len(BatchCall.addresses) = 3
    /\ Len(BatchCall.events) = 5
    /\ BatchCall.events[3].coords = None
    /\ Cardinality(DOMAIN BatchCall.results) = 2

(***************************************************************************)
(* Claims on the order of the route list (under SpecRoutes).               *)
(***************************************************************************)
\* The place of a mode in the order calculate_all_routes appends the entries.
AppendRank(mode) ==
    CASE mode = "walking" -> 1
      [] mode = "cycling" -> 2
      [] mode = "public_transit" -> 3
      [] mode = "driving" -> 4
      [] OTHER -> 5

\* The pairs of positions of the returned list that hold entries other than
\* school_bus of equal duration.
TiedPairs ==
    { p \in (1..Len(Routes)) \X (1..Len(Routes)) :
        /\ p[1] < p[2]
        /\ Routes[p[1]].mode /= "school_bus" /\ Routes[p[2]].mode /= "school_bus"
        /\ Routes[p[1]].duration_minutes = Routes[p[2]].duration_minutes }

\* C25: in every returned list two entries other than school_bus of equal
\* duration_minutes stand in the order walking, cycling, public_transit,
\* driving.
C25_TiesInAppendOrder ==
    transport /= None =>
        \A p \in TiedPairs :
            AppendRank(Routes[p[1]].mode) < AppendRank(Routes[p[2]].mode)

\* C25 witness: at 4.99 km cycling (appended second) and public transit
\* (appended third) both take 19 minutes; driving (9 minutes, appended last)
\* is sorted before them and the two keep their order.
C25_Witness ==
    /\ transport /= None
    /\ RouteDistance = 4992
    /\ Len(Routes) >= 3
    /\ Routes[1].mode = "driving" /\ Routes[1].duration_minutes = 9
    /\ Routes[2].mode = "cycling" /\ Routes[2].duration_minutes = 19
    /\ Routes[3].mode = "public_transit" /\ Routes[3].duration_minutes = 19

\* The positions of the returned list that hold an entry other than school_bus.
RegularPositions ==
    { i \in 1..Len(Routes) : Routes[i].mode /= "school_bus" }

\* C26: in every list returned by get_transportation_for_school every entry
\* other than school_bus has morning_commute_minutes, at least its
\* duration_minutes, and these entries are in non-decreasing order of
\* morning_commute_minutes too: the adjustment the function applies (hour 8)
\* is non-decreasing in the duration and never below it.
C26_MorningCommuteKeepsOrder ==
    ForSchoolCall =>
        /\ \A i \in RegularPositions :
              /\ "morning_commute_minutes" \in DOMAIN Routes[i]
              /\ Routes[i].morning_commute_minutes >= Routes[i].duration_minutes
        /\ \A i, j \in RegularPositions :
              i < j => Routes[i].morning_commute_minutes <= Routes[j].morning_commute_minutes
        /\ \A b1, b2 \in BaseMinutes :
              b1 <= b2 => /\ calculate_morning_commute_time(b1, None)
                                <= calculate_morning_commute_time(b2, None)
                          /\ calculate_morning_commute_time(b1, None) >= b1

\* C26 witness: at 3 km the four estimates are returned in the order driving,
\* cycling, public transit, walking with durations 6, 12, 14, 36 and morning
\* times 7, 15, 17, 45, followed by the school bus.
C26_Witness ==
    /\ ForSchoolCall
    /\ Len(Routes) = 5
    /\ [i \in 1..4 |-> Routes[i].duration_minutes] = <<6, 12, 14, 36>>
    /\ [i \in 1..4 |-> Routes[i].morning_commute_minutes] = <<7, 15, 17, 45>>
    /\ Routes[5].mode = "school_bus"

(***************************************************************************)
(* Claims on the public transit estimate as a function of the distance     *)
(* (under SpecEstimate).                                                   *)
(***************************************************************************)
\* duration_minutes of the estimate for a distance >= 2 km.
TransitDuration(distance_m) ==
    _estimate_public_transit(distance_m)[1].duration_minutes

\* The distances >= 2 km not above the distance of the call.
ShorterDistances ==
    { d \in DistanceInputs : 2000 <= d /\ d <= EstimateCall.distance_m }

\* C27 as stated: for any two distances d1 <= d2 that are both >= 2 km, the
\* estimate for d1 is <= the estimate for d2, across the band boundaries at
\* 5 km and 15 km too.
C27_Original ==
    TransitCall =>
        \A d1 \in ShorterDistances :
            TransitDuration(d1) <= EstimateCall.value[1].duration_minutes

\* C27 amended: for d1 <= d2, both >= 2 km, the estimate for d1 is <= the
\* estimate for d2 when the two distances are in the same band, when d1 is
\* below 5 km, or when d2 is at least 22 km.
C27_MonotoneWithinBands ==
    TransitCall =>
        LET d2 == EstimateCall.distance_m
        IN  \A d1 \in ShorterDistances :
                (BandSpeed(d1) = BandSpeed(d2) \/ d1 < 5000 \/ d2 >= 22000)
                    => TransitDuration(d1) <= EstimateCall.value[1].duration_minutes

\* C27 witness: the estimate at 15.001 km is 32 minutes, and those at
\* 4.999 km, at 5.001 km and at 14.999 km are 19, 20 and 43 minutes: the
\* estimate rises across 5 km and falls across 15 km.
C27_Witness ==
    /\ TransitCall
    /\ EstimateCall.distance_m = 15001
    /\ EstimateCall.value[1].duration_minutes = 32
    /\ TransitDuration(4999) = 19
    /\ TransitDuration(5001) = 20
    /\ TransitDuration(14999) = 43

(***************************************************************************)
(* Claims on the reported distance and the radius (under SpecSearch).      *)
(***************************************************************************)
\* C28 as stated: the distance_km of every result (the distance rounded to
\* two decimals) is <= the radius_km of the search.
C28_Original ==
    nearby /= None =>
        \A i \in 1..Len(NearbyCall.result) :
            NearbyCall.result[i].distance_km * 10 <= NearbyCall.radius_m

\* C28 amended: the distance_km of every result exceeds radius_km by at most
\* 0.005 km, and not at all when radius_km is a whole number of hundredths
\* of a km.
C28_ReportedDistanceWithinRounding ==
    nearby /= None =>
        \A i \in 1..Len(NearbyCall.result) :
            LET entry == NearbyCall.result[i]
            IN  /\ ExactDistance(entry) <= NearbyCall.radius_m
                /\ entry.distance_km * 10 <= NearbyCall.radius_m + 5
                /\ NearbyCall.radius_m % 10 = 0
                       => entry.distance_km * 10 <= NearbyCall.radius_m

\* C28 witness: a search with radius_km 0.456 returns a school 455.9 m from
\* the centre with distance_km 0.46.
C28_Witness ==
    /\ nearby /= None
    /\ NearbyCall.radius_m = 456
    /\ \E i \in 1..Len(NearbyCall.result) :
          /\ ExactDistance(NearbyCall.result[i]) = 455
          /\ NearbyCall.result[i].distance_km = 46

(***************************************************************************)
(* Claims on the view count of a shareable comparison (under SpecShare).   *)
(***************************************************************************)
\* The requests that have been answered.
AnsweredViewers ==
    { v \in Viewers : viewers[v] /= None /\ viewers[v][1].pc = "done" }

\* The requests for the share_id that got the comparison.
SuccessfulRetrievals(share_id) ==
    { v \in AnsweredViewers :
        viewers[v][1].share_id = share_id /\ viewers[v][1].result /= None }

\* C29 as stated: the view_count of every comparison is its initial value (0)
\* plus the number of get_shareable_comparison calls that returned it, in
\* any interleaving of the requests; a call on an expired or unknown
\* share_id returns None and counts nothing.
C29_Original ==
    /\ \A i \in 1..Len(comparisons) :
          comparisons[i].view_count
              = Cardinality(SuccessfulRetrievals(comparisons[i].share_id))
    /\ \A v \in AnsweredViewers :
          viewers[v][1].result /= None
              => \E i \in 1..Len(comparisons) :
                    comparisons[i].share_id = viewers[v][1].share_id

\* C29 failing run: two requests for the same share_id have both loaded the
\* row with view_count 0 and both committed 1: two successful retrievals,
\* view_count 1.
C29_Witness ==
    /\ Len(comparisons) >= 1
    /\ Cardinality(SuccessfulRetrievals(ShareToken(1))) = 2
    /\ comparisons[1].view_count = 1

(***************************************************************************)
(* Claims on the application_statuses table (under SpecApplications).      *)
(***************************************************************************)
PairOf(row) == <<row.user_email, row.school_id>>

RowsOfPair(rows, pair) == { i \in 1..Len(rows) : PairOf(rows[i]) = pair }

\* The requests that commit in the step, with the row they loaded.
CommittingUpdaters ==
    { u \in LoadedUpdaters : updaters'[u] /= None /\ updaters'[u][1].pc = "done" }

\* C30 as stated: in every step of every interleaving of
\* create_or_update_application_status calls the table keeps at most one row
\* per (user_email, school_id); a row is only inserted for a pair that has no
\* row; a call for an existing pair sets status, waiting_list_position and
\* notes of that row; applied_date of an existing row never changes and at
\* most the row of the call's pair changes.
C30_Original ==
    [][ /\ \A i, j \in 1..Len(applications') :
              PairOf(applications'[i]) = PairOf(applications'[j]) => i = j
        /\ Len(applications') >= Len(applications)
        /\ Len(applications') > Len(applications)
              => RowsOfPair(applications, PairOf(applications'[Len(applications')])) = {}
        /\ \A i \in 1..Len(applications) :
              /\ applications'[i].id = applications[i].id
              /\ PairOf(applications'[i]) = PairOf(applications[i])
              /\ applications'[i].applied_date = applications[i].applied_date
        /\ \A u \in CommittingUpdaters :
              LET status_data == updaters[u][1].status_data
                  changed == { i \in 1..Len(applications) :
                                 applications'[i] /= applications[i] }
              IN  /\ changed \subseteq RowsOfPair(applications, PairOf(status_data))
                  /\ RowsOfPair(applications, PairOf(status_data)) /= {}
                        => /\ Len(applications') = Len(applications)
                           /\ \A i \in RowsOfPair(applications, PairOf(status_data)) :
                                 /\ applications'[i].status = status_data.status
                                 /\ applications'[i].waiting_list_position
                                        = status_data.waiting_list_position
                                 /\ applications'[i].notes = status_data.notes
      ]_vars

\* C30 failing run: two calls for the same new pair have both found no row
\* and both inserted one: the table has two rows of the pair.
C30_Witness ==
    /\ \A u \in Updaters :
          /\ updaters[u] /= None /\ updaters[u][1].pc = "done"
          /\ updaters[u][1].existing = None
          /\ PairOf(updaters[u][1].status_data) = <<"ouder@example.nl", 1>>
    /\ Cardinality(RowsOfPair(applications, <<"ouder@example.nl", 1>>)) = 2

====
